---- MODULE Spec2Model ----
(***************************************************************************)
(* Resilience and flow-control toolkit of the task-management backend:     *)
(*   BackpressureService.withBackpressure  (backpressure.service.ts)       *)
(*   ResilienceService.withCircuitBreaker  (resilience service)            *)
(* Each component has its own specification over its own variables; the    *)
(* variables of the other components stay at their initial values.         *)
(***************************************************************************)
EXTENDS Integers, Sequences, FiniteSets, TLC

(***************************************************************************)
(* Bounds of the model.                                                    *)
(***************************************************************************)
NumCalls == 4                \* calls issued to one backpressure wrapper
MaxConcurrencyBound == 2     \* maxConcurrency ranges over 1..MaxConcurrencyBound
MaxQueueBound == 2           \* maxQueue ranges over 0..MaxQueueBound

NumCbCalls == 2              \* circuit-breaker calls that can be in flight at once
MaxThreshold == 2            \* options.failureThreshold ranges over 1..MaxThreshold
MaxResetTimeout == 2         \* options.resetTimeoutMs ranges over 1..MaxResetTimeout
MaxTime == 2                 \* Date.now() ranges over 0..MaxTime
MaxFailures == 3             \* no new call once failureCount has reached MaxFailures
MaxSuccesses == 2            \* no new call once successCount has reached MaxSuccesses
NumRlCalls == 3              \* calls of one rate-limited function
MaxRate == 2                 \* parameter rate ranges over 0..MaxRate
MaxRetryAttempts == 3        \* options.maxAttempts ranges over -1..MaxRetryAttempts
MaxDelay == 2                \* options.delayMs ranges over 1..MaxDelay
MaxMultiplier == 2           \* options.backoffMultiplier: absent or in 1..MaxMultiplier
MaxKeysBound == 2            \* CACHE_MAX_KEYS ranges over 1..MaxKeysBound
MaxCacheSeconds == 2         \* the cache's clock runs from 0 to MaxCacheSeconds seconds
MaxTtl == 1                  \* ttlSeconds ranges over 1..MaxTtl
MaxAccessCount == 1          \* no further hit once the accessCounts add up to MaxAccessCount
MaxE2eCalls == 5             \* calls of the composed function in the end-to-end scenario
NumToCalls == 2              \* calls of the function withTimeout returns
MaxTimeoutMs == 2            \* parameter timeoutMs ranges over 0..MaxTimeoutMs
MaxListeners == 2            \* 'open' listeners registerSelfHealing adds to one breaker
NumRequests == 3             \* requests that reach the rate-limit guard
MaxRequests == 2             \* maxRequests ranges over 1..MaxRequests
MaxWindow == 1               \* the window index runs from 0 to MaxWindow
MaxHeap == 12                \* objects allocated while values are copied in and out of the cache
MaxHalfInterval == 1         \* parameter intervalMs ranges over 2, 4, .. 2 * MaxHalfInterval

BpCalls == 1..NumCalls
CbCalls == 1..NumCbCalls
RlCalls == 1..NumRlCalls
ToCalls == 1..NumToCalls
RgRequests == 1..NumRequests
RgWindows == 0..MaxWindow
BreakerKeys == {"k1", "k2"}      \* the keys the map breakers can hold
Actions == {"act1", "act2"}      \* the actions callers pass to getBreaker
CircuitNames == {"a", "b"}     \* the keys the map circuitBreakers can hold
OneCircuit == {"a"}            \* the specifications of a single breaker call this name
CbOptions == [failureThreshold : 1..MaxThreshold, resetTimeoutMs : 1..MaxResetTimeout]

VARIABLES
  \* ---- BackpressureService.withBackpressure: one wrapped function ----
  maxConcurrency,   \* parameter maxConcurrency
  maxQueue,         \* parameter maxQueue (0 = unlimited)
  active,           \* closure variable `active`
  queue,            \* closure variable `queue`: entries {args, resolve, reject}
  callSt,           \* position of each call of the wrapper
  ranWith,          \* arguments fn was invoked with on behalf of each caller (0: not invoked)
  outcome,          \* settlement of the promise each caller holds
  startSeq,         \* history: callers in the order fn was invoked for them
  enqSeq,           \* history: callers in the order they were pushed on the queue
  \* ---- ResilienceService.withCircuitBreaker ----
  circuitBreakers,  \* field circuitBreakers: Map<string, CircuitBreakerState>
  now,              \* Date.now()
  cbCall,           \* the calls of withCircuitBreaker in flight: position, arguments
  cbLast,           \* the call that returned last, with what its caller received
  cbPolicy,         \* the options the application passes, where it always passes the same
  \* ---- PredictablePerformanceService.withRateLimit: one wrapped function ----
  rate,             \* parameter rate
  intervalMs,       \* parameter intervalMs
  tokens,           \* closure variable `tokens`
  elapsed,          \* Date.now() - lastRefill, kept up to intervalMs + 1
  timerIn,          \* time left until the setInterval timer is due
  rlQueue,          \* closure variable `queue`: entries {args, resolve, reject}
  rlSt,             \* position of each call of the wrapper
  rlAge,            \* time since fn was invoked for each caller, kept up to intervalMs
  rlRanWith,        \* arguments fn was invoked with on behalf of each caller (0: not invoked)
  rlStartSeq,       \* history: callers in the order fn was invoked for them
  rlEnqSeq,         \* history: callers in the order they were pushed on the queue
  \* ---- ResilienceService.withRetry: one call ----
  rtOptions,        \* parameter options: maxAttempts, delayMs, backoffMultiplier, shouldRetry
  rtPc,             \* position of the call: idle, op, delay, returned, threw
  attempt,          \* loop variable `attempt`
  currentDelay,     \* local `currentDelay`
  lastError,        \* local `lastError`: number of the invocation that threw it (0: undefined)
  rtInvoked,        \* history: how many times operation() was invoked
  rtOps,            \* history: how each invocation of operation() ended
  rtOutcome,        \* what the caller of withRetry received
  rtDelayLeft,      \* time left of the delay awaited
  rtWaits,          \* history: the delays awaited, in order
  \* ---- CacheService ----
  cacheKeys,        \* the keys the application uses with the cache
  cache,            \* field cache: the own properties, in insertion order
  maxKeys,          \* field maxKeys
  cacheNow,         \* Date.now()
  cacheRet,         \* the operation that returned last and what it returned
  setExpiry,        \* history: when the value last set under each key expires (-1: never set)
  \* ---- CacheService.deepClone: the objects behind one key ----
  heap,             \* the objects allocated, by reference (index)
  held,             \* references the caller holds: objects it made, results of get
  stored,           \* item.value of the entry: what the cache holds
  \* ---- the end-to-end scenario: backpressure inside a circuit breaker ----
  counter,          \* the counter the wrapped operation increments
  e2eResults,       \* history: what each call of the composition delivered, in order
  \* ---- PredictablePerformanceService.withTimeout: one wrapped function ----
  timeoutMs,        \* parameter timeoutMs
  toFn,             \* the promise fn returned to each call: "none", "running", "ok", "err"
  toTimer,          \* the timer of each call: "none", "armed", "fired"
  toElapsed,        \* time since each call was made, up to timeoutMs + 1
  toOutcome,        \* settlement of the promise Promise.race returned to each caller
  toFnAt,           \* history: toElapsed when fn settled (-1: not settled)
  \* ---- CircuitBreakerService.getBreaker, SelfHealingService.registerSelfHealing ----
  breakers,         \* field breakers: Map<string, breaker>
  gbRet,            \* the last call: what was asked, the breaker it got, what fire() did
  \* ---- EnhancedRateLimitGuard.canActivate, one rate-limit key ----
  maxRequests,      \* rateLimitOptions.maxRequests
  currentWindow,    \* Math.floor(Date.now() / windowMs)
  rgCache,          \* the count the cache holds under rate_limit:<key>:<window> (0: no entry)
  rgReq,            \* each request: position, the window and the count it read
  rgAdmitted        \* history: requests admitted, by the window they computed

bpVars == <<maxConcurrency, maxQueue, active, queue, callSt, ranWith, outcome,
            startSeq, enqSeq>>

cbVars == <<circuitBreakers, now, cbCall, cbLast, cbPolicy>>

rlVars == <<rate, intervalMs, tokens, elapsed, timerIn, rlQueue, rlSt, rlAge,
            rlRanWith, rlStartSeq, rlEnqSeq>>

rtVars == <<rtOptions, rtPc, attempt, currentDelay, lastError, rtInvoked, rtOps,
            rtOutcome, rtDelayLeft, rtWaits>>

caVars == <<cacheKeys, cache, maxKeys, cacheNow, cacheRet, setExpiry>>

clVars == <<heap, held, stored>>

e2eVars == <<counter, e2eResults>>

toVars == <<timeoutMs, toFn, toTimer, toElapsed, toOutcome, toFnAt>>

gbVars == <<breakers, gbRet>>

rgVars == <<maxRequests, currentWindow, rgCache, rgReq, rgAdmitted>>

vars == <<bpVars, cbVars, rlVars, rtVars, caVars, clVars, e2eVars, toVars, gbVars, rgVars>>

\* what the steps of one component leave alone
notBp == <<cbVars, rlVars, rtVars, caVars, clVars, e2eVars, toVars, gbVars, rgVars>>
notCb == <<bpVars, rlVars, rtVars, caVars, clVars, e2eVars, toVars, gbVars, rgVars>>
notRl == <<bpVars, cbVars, rtVars, caVars, clVars, e2eVars, toVars, gbVars, rgVars>>
notRt == <<bpVars, cbVars, rlVars, caVars, clVars, e2eVars, toVars, gbVars, rgVars>>
notCa == <<bpVars, cbVars, rlVars, rtVars, clVars, e2eVars, toVars, gbVars, rgVars>>
notCl == <<bpVars, cbVars, rlVars, rtVars, caVars, e2eVars, toVars, gbVars, rgVars>>
notE2e == <<rlVars, rtVars, caVars, clVars, toVars, gbVars, rgVars>>   \* the composition uses bpVars and cbVars
notTo == <<bpVars, cbVars, rlVars, rtVars, caVars, clVars, e2eVars, gbVars, rgVars>>
notGb == <<bpVars, cbVars, rlVars, rtVars, caVars, clVars, e2eVars, toVars, rgVars>>
notRg == <<bpVars, cbVars, rlVars, rtVars, caVars, clVars, e2eVars, toVars, gbVars>>

\* a request that has not reached the guard
RgIdle == [pc |-> "idle", window |-> 0, requestCount |-> 0]

\* the guard before any request
RgQuiet ==
  /\ maxRequests = 1
  /\ currentWindow = 0
  /\ rgCache = [w \in RgWindows |-> 0]
  /\ rgReq = [r \in RgRequests |-> RgIdle]
  /\ rgAdmitted = [w \in RgWindows |-> 0]

\* a key the map breakers has no entry for
NoBreaker == [action |-> "none", onOpen |-> 0]

\* what a call of getBreaker, registerSelfHealing or fire came to
GbReturned(op, key, asked, breaker, result) ==
  [op |-> op, key |-> key, asked |-> asked, breaker |-> breaker, result |-> result]

\* CircuitBreakerService just constructed
GbQuiet ==
  /\ breakers = [k \in BreakerKeys |-> NoBreaker]
  /\ gbRet = GbReturned("none", "k1", "none", NoBreaker, "none")

\* withTimeout not in use
ToQuiet ==
  /\ timeoutMs = 1
  /\ toFn = [c \in ToCalls |-> "none"]
  /\ toTimer = [c \in ToCalls |-> "none"]
  /\ toElapsed = [c \in ToCalls |-> 0]
  /\ toOutcome = [c \in ToCalls |-> "pending"]
  /\ toFnAt = [c \in ToCalls |-> -1]

\* the composition not in use
EeQuiet == counter = 0 /\ e2eResults = <<>>

\* a slot of a variable, array or object: a primitive or a reference
PrimSlot(n) == [isRef |-> FALSE, x |-> n]
RefTo(r) == [isRef |-> TRUE, x |-> r]

\* no object made, nothing stored
ClQuiet == heap = <<>> /\ held = {} /\ stored = PrimSlot(0)

\* values: primitives, dates, arrays and plain objects
Val(kind, v, names, items) == [kind |-> kind, v |-> v, names |-> names, items |-> items]
Primitive(n) == Val("prim", n, <<>>, <<>>)
DateOf(ms) == Val("date", ms, <<>>, <<>>)
ArrayOf(items) == Val("array", 0, <<>>, items)
ObjectOf(names, items) == Val("object", 0, names, items)

Undefined == Primitive(0)

\* what an operation of the cache returned (for set: the value it was given)
Returned(op, key, kind, value) ==
  [op |-> op, key |-> key, kind |-> kind, value |-> value]

\* a cache nobody uses
CaQuiet ==
  /\ cacheKeys = {} /\ cache = <<>> /\ maxKeys = 1 /\ cacheNow = 0
  /\ cacheRet = Returned("none", "", "void", Undefined)
  /\ setExpiry = [key \in cacheKeys |-> -1]

\* what the caller of withRetry holds before the call settles
RtPending == [kind |-> "pending", of |-> 0]

\* withRetry not called
RtQuiet ==
  /\ rtOptions = [maxAttempts |-> 1, delayMs |-> 1, backoffMultiplier |-> {},
                  shouldRetry |-> FALSE]
  /\ rtPc = "idle" /\ attempt = 0 /\ currentDelay = 0 /\ lastError = 0
  /\ rtInvoked = 0 /\ rtOps = <<>> /\ rtOutcome = RtPending
  /\ rtDelayLeft = 0 /\ rtWaits = <<>>

\* a rate limiter nobody calls
RlQuiet ==
  /\ rate = 1 /\ intervalMs = 2 /\ tokens = 1 /\ elapsed = 0 /\ timerIn = 1
  /\ rlQueue = <<>>
  /\ rlSt = [c \in RlCalls |-> "new"]
  /\ rlAge = [c \in RlCalls |-> 0]
  /\ rlRanWith = [c \in RlCalls |-> 0]
  /\ rlStartSeq = <<>> /\ rlEnqSeq = <<>>

(***************************************************************************)
(* Backpressure: the closure state as one record, so that run and tryNext  *)
(* compose the way the code calls them.                                    *)
(***************************************************************************)
BpState ==
  [active |-> active, queue |-> queue, callSt |-> callSt, ranWith |-> ranWith,
   outcome |-> outcome, startSeq |-> startSeq, enqSeq |-> enqSeq]

BpAssign(s) ==
  /\ active' = s.active
  /\ queue' = s.queue
  /\ callSt' = s.callSt
  /\ ranWith' = s.ranWith
  /\ outcome' = s.outcome
  /\ startSeq' = s.startSeq
  /\ enqSeq' = s.enqSeq

\* run(args, resolve, reject): active++, then fn(...args) is invoked.  fn either
\* returns a promise (the call is "running") or throws before returning one
\* ("threw": the .finally that releases the slot is never attached).
run(s, args, k, throws) ==
  [s EXCEPT !.active = @ + 1,
            !.ranWith[k] = args,
            !.startSeq = Append(@, k),
            !.callSt[k] = IF throws THEN "threw" ELSE "running"]

\* mutant: the slot test off by one (active <= maxConcurrency)
HasFreeSlot_OffByOne(s) == s.active <= maxConcurrency

\* the test of tryNext and of the wrapper's first branch: active < maxConcurrency
HasFreeSlot(s) == s.active < maxConcurrency

\* mutant: queue.pop() in place of queue.shift()
Shift_Pop(q) == [entry |-> q[Len(q)], rest |-> SubSeq(q, 1, Len(q) - 1)]

\* queue.shift(): the entry taken and the queue left
Shift(q) == [entry |-> Head(q), rest |-> Tail(q)]

\* tryNext(): start the head of the queue when a slot is free
tryNext(s, throws) ==
  IF HasFreeSlot(s) /\ Len(s.queue) > 0
  THEN LET sh == Shift(s.queue)
       IN run([s EXCEPT !.queue = sh.rest], sh.entry.args, sh.entry.k, throws)
  ELSE s

\* mutant: the queue test off by one (queue.length <= maxQueue)
CanEnqueue_OffByOne(s) == maxQueue = 0 \/ Len(s.queue) <= maxQueue

\* mutant: maxQueue 0 read as "no queue" (the maxQueue === 0 test dropped)
CanEnqueue_ZeroIsEmpty(s) == Len(s.queue) < maxQueue

\* the wrapper's second test: maxQueue === 0 || queue.length < maxQueue
CanEnqueue(s) == maxQueue = 0 \/ Len(s.queue) < maxQueue

\* mutant: the entry pushed keeps the arguments of the first caller
Enqueue_StaleArgs(s, c) ==
  [s EXCEPT !.queue = Append(@, [args |-> 1, k |-> c]),
            !.enqSeq = Append(@, c),
            !.callSt[c] = "queued"]

\* queue.push({args, resolve, reject})
Enqueue(s, c) ==
  [s EXCEPT !.queue = Append(@, [args |-> c, k |-> c]),
            !.enqSeq = Append(@, c),
            !.callSt[c] = "queued"]

\* Promise.reject(new Error('Backpressure: queue overflow'))
RejectOverflow(s, c) ==
  [s EXCEPT !.callSt[c] = "overflow", !.outcome[c] = "overflow"]

\* The returned wrapper, called with arguments c by caller c.
wrapped(s, c, throws) ==
  IF HasFreeSlot(s)
  THEN LET s1 == run(s, c, c, throws)
       IN \* a throw inside the Promise executor rejects the caller's promise
          IF throws THEN [s1 EXCEPT !.outcome[c] = "err"] ELSE s1
  ELSE IF CanEnqueue(s) THEN Enqueue(s, c)
  ELSE RejectOverflow(s, c)

\* fn's promise settles; .then(resolve) / .catch(reject) settle the caller's promise
settle(s, k, res) ==
  [s EXCEPT !.callSt[k] = "settled", !.outcome[k] = res]

\* mutant: the slot is released on fulfilment only (.then for .finally)
release_OnSuccessOnly(s, k, throws) ==
  IF s.outcome[k] = "ok"
  THEN tryNext([s EXCEPT !.active = @ - 1, !.callSt[k] = "done"], throws)
  ELSE [s EXCEPT !.callSt[k] = "done"]

\* mutant: the slot is released without restarting the queue (no tryNext())
release_NoTryNext(s, k, throws) ==
  [s EXCEPT !.active = @ - 1, !.callSt[k] = "done"]

\* .finally(() => { active--; tryNext(); })
release(s, k, throws) ==
  tryNext([s EXCEPT !.active = @ - 1, !.callSt[k] = "done"], throws)

BpInit ==
  /\ maxConcurrency \in 1..MaxConcurrencyBound
  /\ maxQueue \in 0..MaxQueueBound
  /\ active = 0
  /\ queue = <<>>
  /\ callSt = [c \in BpCalls |-> "new"]
  /\ ranWith = [c \in BpCalls |-> 0]
  /\ outcome = [c \in BpCalls |-> "pending"]
  /\ startSeq = <<>>
  /\ enqSeq = <<>>

\* Callers are numbered in the order they call the wrapper.
BpCall(c) ==
  /\ callSt[c] = "new"
  /\ \A d \in BpCalls : d < c => callSt[d] # "new"
  /\ \E throws \in BOOLEAN : BpAssign(wrapped(BpState, c, throws))
  /\ UNCHANGED <<maxConcurrency, maxQueue, notBp>>

BpFnSettle(c) ==
  /\ callSt[c] = "running"
  /\ \E res \in {"ok", "err"} : BpAssign(settle(BpState, c, res))
  /\ UNCHANGED <<maxConcurrency, maxQueue, notBp>>

BpFinally(c) ==
  /\ callSt[c] = "settled"
  /\ \E throws \in BOOLEAN : BpAssign(release(BpState, c, throws))
  /\ UNCHANGED <<maxConcurrency, maxQueue, notBp>>

BpNext == \E c \in BpCalls : BpCall(c) \/ BpFnSettle(c) \/ BpFinally(c)

\* the wrapper before any call, for the specifications of the other components
BpQuiet ==
  /\ maxConcurrency = 1
  /\ maxQueue = 0
  /\ active = 0
  /\ queue = <<>>
  /\ callSt = [c \in BpCalls |-> "new"]
  /\ ranWith = [c \in BpCalls |-> 0]
  /\ outcome = [c \in BpCalls |-> "pending"]
  /\ startSeq = <<>>
  /\ enqSeq = <<>>

(***************************************************************************)
(* Circuit breaker: ResilienceService.withCircuitBreaker.                  *)
(***************************************************************************)
\* getOrCreateCircuit: the record a new name gets
FreshCircuit ==
  [state |-> "CLOSED", failureCount |-> 0, lastFailureTime |-> 0, successCount |-> 0]

\* a name the map circuitBreakers has no entry for
NoCircuit ==
  [state |-> "ABSENT", failureCount |-> 0, lastFailureTime |-> 0, successCount |-> 0]

getOrCreateCircuit(cbs, name) ==
  IF cbs[name] = NoCircuit THEN [cbs EXCEPT ![name] = FreshCircuit] ELSE cbs

\* mutant: the cooldown test off by one (<= for <)
InCooldown_OffByOne(circuit, options, t) ==
  t - circuit.lastFailureTime <= options.resetTimeoutMs

\* Date.now() - circuit.lastFailureTime < options.resetTimeoutMs
InCooldown(circuit, options, t) ==
  t - circuit.lastFailureTime < options.resetTimeoutMs

\* mutant: the counter is not reset on success
onCircuitSuccess_NoReset(circuit) ==
  LET c1 == [circuit EXCEPT !.successCount = @ + 1]
  IN IF c1.state = "HALF_OPEN" THEN [c1 EXCEPT !.state = "CLOSED"] ELSE c1

\* mutant: a success closes the breaker whatever its state
onCircuitSuccess_AlwaysCloses(circuit) ==
  [circuit EXCEPT !.failureCount = 0, !.successCount = @ + 1, !.state = "CLOSED"]

onCircuitSuccess(circuit) ==
  LET c1 == [circuit EXCEPT !.failureCount = 0, !.successCount = @ + 1]
  IN IF c1.state = "HALF_OPEN" THEN [c1 EXCEPT !.state = "CLOSED"] ELSE c1

\* mutant: trips one failure early (failureCount + 1 >= failureThreshold)
onCircuitFailure_Early(circuit, options, t) ==
  LET c1 == [circuit EXCEPT !.failureCount = @ + 1, !.lastFailureTime = t]
  IN IF c1.failureCount + 1 >= options.failureThreshold
     THEN [c1 EXCEPT !.state = "OPEN"] ELSE c1

onCircuitFailure(circuit, options, t) ==
  LET c1 == [circuit EXCEPT !.failureCount = @ + 1, !.lastFailureTime = t]
  IN IF c1.failureCount >= options.failureThreshold
     THEN [c1 EXCEPT !.state = "OPEN"] ELSE c1

\* a call of withCircuitBreaker that has not been made
IdleCall ==
  [pc |-> "idle", name |-> "a",
   options |-> [failureThreshold |-> 1, resetTimeoutMs |-> 1],
   fallback |-> FALSE, invoked |-> FALSE, trial |-> FALSE, via |-> "none",
   result |-> "none"]

\* the function is past its last use of options: the local is dead
Forget(call) == [call EXCEPT !.options = IdleCall.options]

\* mutant: the OPEN breaker in cooldown lets the call through to the operation
FailFast_RunsOperation(call) ==
  [call EXCEPT !.pc = "op", !.invoked = TRUE, !.via = "open"]

\* lines 115-119: return fallback() if a fallback is given, else throw
\* Error(`Circuit breaker '${circuitName}' is OPEN`)
FailFast(call) ==
  IF call.fallback
  THEN Forget([call EXCEPT !.pc = "fallback", !.via = "open"])
  ELSE Forget([call EXCEPT !.pc = "done", !.via = "open", !.result = "circuitOpen"])

\* mutant: a call rejected in cooldown is counted as a failure
CbEnter_FailFastCounts(cbs, name, options, fallback, t) ==
  LET cbs1 == getOrCreateCircuit(cbs, name)
      circuit == cbs1[name]
      call == [IdleCall EXCEPT !.name = name, !.options = options,
                               !.fallback = fallback]
  IN IF circuit.state = "OPEN"
     THEN IF InCooldown(circuit, options, t)
          THEN [cbs |-> [cbs1 EXCEPT ![name].failureCount = @ + 1],
                call |-> FailFast(call)]
          ELSE [cbs |-> [cbs1 EXCEPT ![name].state = "HALF_OPEN"],
                call |-> [call EXCEPT !.pc = "op", !.invoked = TRUE,
                                      !.trial = TRUE, !.via = "primary"]]
     ELSE [cbs |-> cbs1,
           call |-> [call EXCEPT !.pc = "op", !.invoked = TRUE, !.via = "primary"]]

\* lines 111-127: the synchronous part of withCircuitBreaker, up to the await.
\* Gives the map and the call as they are when the function first suspends.
CbEnter(cbs, name, options, fallback, t) ==
  LET cbs1 == getOrCreateCircuit(cbs, name)
      circuit == cbs1[name]
      call == [IdleCall EXCEPT !.name = name, !.options = options,
                               !.fallback = fallback]
  IN IF circuit.state = "OPEN"
     THEN IF InCooldown(circuit, options, t)
          THEN [cbs |-> cbs1, call |-> FailFast(call)]
          ELSE [cbs |-> [cbs1 EXCEPT ![name].state = "HALF_OPEN"],
                call |-> [call EXCEPT !.pc = "op", !.invoked = TRUE,
                                      !.trial = TRUE, !.via = "primary"]]
     ELSE [cbs |-> cbs1,
           call |-> [call EXCEPT !.pc = "op", !.invoked = TRUE, !.via = "primary"]]

\* mutant: the primary failure is not recorded when a fallback takes over
CbAfterFailure_SkipRecord(cbs, call, t) ==
  IF call.fallback
  THEN [cbs |-> cbs,
        call |-> Forget([call EXCEPT !.pc = "fallback", !.via = "failed"])]
  ELSE [cbs |-> [cbs EXCEPT ![call.name] = onCircuitFailure(@, call.options, t)],
        call |-> Forget([call EXCEPT !.pc = "done", !.via = "failed",
                                     !.result = "opError"])]

\* lines 130-139: the catch block
CbAfterFailure(cbs, call, t) ==
  LET cbs1 == [cbs EXCEPT ![call.name] = onCircuitFailure(@, call.options, t)]
  IN IF call.fallback
     THEN [cbs |-> cbs1,
           call |-> Forget([call EXCEPT !.pc = "fallback", !.via = "failed"])]
     ELSE [cbs |-> cbs1,
           call |-> Forget([call EXCEPT !.pc = "done", !.via = "failed",
                                        !.result = "opError"])]

\* lines 127-129: the operation fulfilled
CbAfterSuccess(cbs, call) ==
  [cbs |-> [cbs EXCEPT ![call.name] = onCircuitSuccess(@)],
   call |-> Forget([call EXCEPT !.pc = "done", !.result = "opValue"])]

\* mutant: a failing fallback is counted as a failure of the breaker
CbAfterFallback_Counts(cbs, call, ok, t) ==
  [cbs |-> IF ok THEN cbs
           ELSE [cbs EXCEPT ![call.name] = onCircuitFailure(@, call.options, t)],
   call |-> [call EXCEPT !.pc = "done",
                         !.result = IF ok THEN "fbValue" ELSE "fbError"]]

\* return fallback(): the caller gets the fallback's own settlement
CbAfterFallback(cbs, call, ok, t) ==
  [cbs |-> cbs,
   call |-> [call EXCEPT !.pc = "done",
                         !.result = IF ok THEN "fbValue" ELSE "fbError"]]

CbQuiet ==
  /\ circuitBreakers = [n \in CircuitNames |-> NoCircuit]
  /\ now = 0
  /\ cbCall = [c \in CbCalls |-> IdleCall]
  /\ cbLast = IdleCall
  /\ cbPolicy = IdleCall.options

CbInit ==
  /\ circuitBreakers = [n \in CircuitNames |-> NoCircuit]
  /\ now = 0
  /\ cbCall = [c \in CbCalls |-> IdleCall]
  /\ cbLast = IdleCall
  /\ cbPolicy \in CbOptions

CbCountersBelowCap(name) ==
  /\ circuitBreakers[name].failureCount < MaxFailures
  /\ circuitBreakers[name].successCount < MaxSuccesses

\* the step of call c leaves the map as cbs and the call as call; a call that
\* has returned frees its record
CbStep(c, r) ==
  /\ circuitBreakers' = r.cbs
  /\ IF r.call.pc = "done"
     THEN cbCall' = [cbCall EXCEPT ![c] = IdleCall] /\ cbLast' = r.call
     ELSE cbCall' = [cbCall EXCEPT ![c] = r.call] /\ cbLast' = cbLast
  /\ UNCHANGED <<now, cbPolicy, notCb>>

\* The records of cbCall are interchangeable: a new call takes the first free one.
CbFree(c) == cbCall[c].pc = "idle"

CbBegin(c, name, options, fallback) ==
  /\ CbFree(c)
  /\ \A d \in CbCalls : d < c => ~CbFree(d)
  /\ CbCountersBelowCap(name)
  /\ CbStep(c, CbEnter(circuitBreakers, name, options, fallback, now))

\* A call on the breaker, with or without a fallback.  The application passes
\* the same options on every call of a breaker (cbPolicy), which is what every
\* statement about "the" failureThreshold or resetTimeoutMs of a breaker assumes.
CbCallBreaker(c) ==
  \E name \in OneCircuit, fallback \in BOOLEAN :
    CbBegin(c, name, cbPolicy, fallback)

CbNoneInFlight == \A d \in CbCalls : CbFree(d)

\* one call at a time
CbBeginSeq(c) == CbNoneInFlight /\ CbCallBreaker(c)

CbOpSucceed(c) ==
  /\ cbCall[c].pc = "op"
  /\ CbStep(c, CbAfterSuccess(circuitBreakers, cbCall[c]))

CbOpFail(c) ==
  /\ cbCall[c].pc = "op"
  /\ CbStep(c, CbAfterFailure(circuitBreakers, cbCall[c], now))

CbFallbackSettle(c) ==
  /\ cbCall[c].pc = "fallback"
  /\ \E ok \in BOOLEAN :
       CbStep(c, CbAfterFallback(circuitBreakers, cbCall[c], ok, now))

CbTick ==
  /\ now < MaxTime
  /\ now' = now + 1
  /\ UNCHANGED <<circuitBreakers, cbCall, cbLast, cbPolicy, notCb>>

CbSettle(c) == CbOpSucceed(c) \/ CbOpFail(c) \/ CbFallbackSettle(c)

CbNext == (\E c \in CbCalls : CbCallBreaker(c) \/ CbSettle(c)) \/ CbTick

CbNextSeq == (\E c \in CbCalls : CbBeginSeq(c) \/ CbSettle(c)) \/ CbTick

InitCB == BpQuiet /\ CbInit /\ RlQuiet /\ RtQuiet /\ CaQuiet /\ ClQuiet /\ EeQuiet /\ ToQuiet /\ GbQuiet /\ RgQuiet

\* concurrent calls
SpecCB == InitCB /\ [][CbNext]_vars

\* one call at a time
SpecCBSeq == InitCB /\ [][CbNextSeq]_vars

Init == BpInit /\ CbQuiet /\ RlQuiet /\ RtQuiet /\ CaQuiet /\ ClQuiet /\ EeQuiet /\ ToQuiet /\ GbQuiet /\ RgQuiet

SpecBP == Init /\ [][BpNext]_vars

\* fn is an async function, as the doc comment of withBackpressure requires
\* ("@param fn The async function to protect"): every invocation returns a promise.
BpCallAsync(c) ==
  /\ callSt[c] = "new"
  /\ \A d \in BpCalls : d < c => callSt[d] # "new"
  /\ BpAssign(wrapped(BpState, c, FALSE))
  /\ UNCHANGED <<maxConcurrency, maxQueue, notBp>>

BpFinallyAsync(c) ==
  /\ callSt[c] = "settled"
  /\ BpAssign(release(BpState, c, FALSE))
  /\ UNCHANGED <<maxConcurrency, maxQueue, notBp>>

BpNextAsync ==
  \E c \in BpCalls : BpCallAsync(c) \/ BpFnSettle(c) \/ BpFinallyAsync(c)

\* every promise fn returns settles, and the reactions to a settled promise run
BpSettles ==
  \A c \in BpCalls : WF_vars(BpFnSettle(c)) /\ WF_vars(BpFinallyAsync(c))

SpecBPAsync == Init /\ [][BpNextAsync]_vars /\ BpSettles

(***************************************************************************)
(* Backpressure: properties.                                               *)
(***************************************************************************)
\* callers for which fn has been invoked and whose slot has not been released
BpHolding == {c \in BpCalls : callSt[c] \in {"running", "settled", "threw"}}

\* caller c calls the wrapper in this step
BpCalling(c) == callSt[c] = "new" /\ callSt'[c] # "new"

BpStarted(c) == \E p \in 1..Len(startSeq) : startSeq[p] = c

BpStartPos(c) == CHOOSE p \in 1..Len(startSeq) : startSeq[p] = c

\* C1: the number of fn invocations started and not yet released, which is what
\* `active` counts, never exceeds maxConcurrency, under every interleaving of
\* calls and settlements.
C1_ActiveBounded ==
  /\ active = Cardinality(BpHolding)
  /\ active <= maxConcurrency

\* C1 witness: two slots, both taken, and a further call waiting
C1_Witness ==
  /\ maxConcurrency = 2
  /\ active = 2
  /\ Len(queue) > 0

BpQueueBounded ==
  /\ maxQueue > 0 => Len(queue) <= maxQueue
  /\ maxQueue = 0 => \A c \in BpCalls : outcome[c] # "overflow"

BpAtCapacityStep ==
  \A c \in BpCalls :
    BpCalling(c) /\ active = maxConcurrency =>
      IF maxQueue = 0 \/ Len(queue) < maxQueue
      THEN /\ callSt'[c] = "queued"
           /\ queue' = Append(queue, [args |-> c, k |-> c])
           /\ outcome'[c] = "pending"
           /\ startSeq' = startSeq
      ELSE /\ callSt'[c] = "overflow"
           /\ outcome'[c] = "overflow"
           /\ queue' = queue
           /\ startSeq' = startSeq /\ ranWith' = ranWith /\ active' = active

\* C8: a call made at capacity is enqueued if maxQueue = 0 or the queue is
\* shorter than maxQueue, and is otherwise rejected at once with the queue
\* overflow error without fn being invoked; so with maxQueue > 0 the queue never
\* grows beyond maxQueue and with maxQueue = 0 the limiter rejects nothing.
C8_OverflowPolicy == []BpQueueBounded /\ [][BpAtCapacityStep]_vars

\* C8 witness: a bounded queue that is full, and a call rejected for it
C8_Witness ==
  /\ maxQueue > 0
  /\ Len(queue) = maxQueue
  /\ \E c \in BpCalls : callSt[c] = "overflow" /\ ranWith[c] = 0

\* C9 as stated: with maxQueue = 0 and every slot taken, a further call is
\* rejected immediately.
C9_AsStated ==
  [][\A c \in BpCalls :
       BpCalling(c) /\ maxQueue = 0 /\ active = maxConcurrency
         => outcome'[c] = "overflow"]_vars

\* C9 amended: with maxQueue = 0 and every slot taken, a further call is never
\* rejected: it is put at the tail of the queue and stays pending; a call is
\* rejected only when maxQueue > 0 and the queue already holds maxQueue calls.
C9_ZeroMeansUnbounded ==
  [][\A c \in BpCalls :
       /\ BpCalling(c) /\ maxQueue = 0 /\ active = maxConcurrency
            => /\ outcome'[c] = "pending"
               /\ Len(queue') = Len(queue) + 1
               /\ queue'[Len(queue')].k = c
       /\ BpCalling(c) /\ outcome'[c] = "overflow"
            => maxQueue > 0 /\ Len(queue) = maxQueue]_vars

\* C9 witness: maxQueue = 0, every slot taken, calls waiting in the queue
C9_Witness ==
  /\ maxQueue = 0
  /\ active = maxConcurrency
  /\ Len(queue) >= 2
  /\ \A c \in BpCalls : outcome[c] # "overflow"

\* C10: calls leave the queue in the order they entered it: of two enqueued
\* calls, the later one has fn started only after the earlier one has.
C10_QueueFifo ==
  \A i, j \in 1..Len(enqSeq) :
    i < j /\ BpStarted(enqSeq[j])
      => BpStarted(enqSeq[i]) /\ BpStartPos(enqSeq[i]) < BpStartPos(enqSeq[j])

\* C10 witness: two calls that waited have both been started, the later-started
\* of the running operations having settled first
C10_Witness ==
  /\ Len(enqSeq) >= 2
  /\ BpStarted(enqSeq[1]) /\ BpStarted(enqSeq[2])
  /\ callSt[enqSeq[1]] = "running"
  /\ callSt[enqSeq[2]] = "done"

(***************************************************************************)
(* Circuit breaker: properties of the breaker "a".                         *)
(***************************************************************************)
Circ == circuitBreakers["a"]

\* what the code compares: Date.now() - lastFailureTime < resetTimeoutMs
CbCooling == now - Circ.lastFailureTime < cbPolicy.resetTimeoutMs

\* call c enters withCircuitBreaker in this step and suspends in it
CbStarts(c) == cbCall[c].pc = "idle" /\ cbCall'[c].pc # "idle"

\* a call enters withCircuitBreaker in this step and returns in it
CbReturnsAtOnce == cbCall' = cbCall /\ cbLast' # cbLast

\* the wrapped operation is invoked in this step
CbInvokes(c) == cbCall[c].pc # "op" /\ cbCall'[c].pc = "op"

\* the operation of call c fulfils in this step
CbSucceeds(c) ==
  /\ cbCall[c].pc = "op" /\ cbCall'[c].pc = "idle"
  /\ cbLast'.result = "opValue"

\* the operation of call c fails in this step
CbFails(c) ==
  /\ cbCall[c].pc = "op" /\ cbCall'[c].pc # "op"
  /\ ~(cbCall'[c].pc = "idle" /\ cbLast'.result = "opValue")

\* the fallback of call c settles in this step
CbFallbackReturns(c) == cbCall[c].pc = "fallback" /\ cbCall'[c].pc # "fallback"

C2_Step ==
  Circ.state = "OPEN" /\ CbCooling =>
    /\ \A c \in CbCalls : ~CbInvokes(c)
    /\ \A c \in CbCalls :
         CbStarts(c) => /\ cbCall'[c].fallback
                        /\ cbCall'[c].pc = "fallback"
                        /\ ~cbCall'[c].invoked
    /\ CbReturnsAtOnce => /\ ~cbLast'.fallback
                          /\ cbLast'.result = "circuitOpen"
                          /\ cbLast'.name = "a"
                          /\ ~cbLast'.invoked

\* a call that failed fast hands its caller the fallback's own settlement
C2_FallbackOutcome ==
  \A c \in CbCalls :
    CbFallbackReturns(c) /\ cbCall[c].via = "open" =>
      /\ cbCall'[c].pc = "idle"
      /\ cbLast'.result \in {"fbValue", "fbError"}
      /\ ~cbLast'.invoked

\* C2: while the breaker is OPEN and now - lastFailureTime < resetTimeoutMs, a
\* call never invokes the wrapped operation: with a fallback it returns the
\* fallback's outcome, without one it raises "Circuit breaker 'a' is OPEN".
C2_OpenFailsFast == [][C2_Step /\ C2_FallbackOutcome]_vars

\* C2 witness: the breaker is OPEN and cooling, one call that failed fast has
\* got the circuit-open error and another waits for its fallback
C2_Witness ==
  /\ Circ.state = "OPEN" /\ CbCooling
  /\ cbLast.result = "circuitOpen" /\ ~cbLast.invoked
  /\ \E c \in CbCalls : cbCall[c].pc = "fallback" /\ cbCall[c].via = "open"

C3_Step ==
  \A c \in CbCalls :
    /\ CbSucceeds(c) =>
         /\ Circ'.failureCount = 0
         /\ Circ'.successCount = Circ.successCount + 1
    /\ CbFails(c) =>
         /\ Circ'.failureCount = Circ.failureCount + 1
         /\ Circ'.lastFailureTime = now
         /\ Circ.state = "CLOSED" =>
              (Circ'.state = "OPEN" <=> Circ'.failureCount >= cbPolicy.failureThreshold)

\* the breaker trips only on a failure, and on the one that completes the run
C3_Trip ==
  Circ.state = "CLOSED" /\ Circ'.state = "OPEN" =>
    /\ \E c \in CbCalls : CbFails(c)
    /\ Circ'.failureCount = cbPolicy.failureThreshold

\* C3: with calls issued one at a time on a fresh breaker and a fixed
\* failureThreshold, each success sets failureCount to 0 and adds 1 to
\* successCount, each failure adds 1 to failureCount and stamps lastFailureTime,
\* and the breaker goes CLOSED -> OPEN exactly on the failure that brings
\* failureCount to failureThreshold: a CLOSED breaker has fewer failures.
C3_CountsAndTrip ==
  /\ [](Circ.state = "CLOSED" => Circ.failureCount < cbPolicy.failureThreshold)
  /\ [][C3_Step /\ C3_Trip]_vars

\* C3 witness: threshold 2, a success, then two failures in a row: OPEN
C3_Witness ==
  /\ cbPolicy.failureThreshold = 2
  /\ Circ.state = "OPEN"
  /\ Circ.failureCount = 2
  /\ Circ.successCount >= 1
  /\ CbNoneInFlight

\* C4 as stated: while the trial call that moved the breaker to HALF_OPEN is in
\* flight, no other call on the breaker invokes the wrapped operation.
C4_SingleTrial ==
  [][\A c, d \in CbCalls :
       /\ c # d
       /\ Circ.state = "HALF_OPEN"
       /\ cbCall[d].pc = "op" /\ cbCall[d].trial
       => ~CbInvokes(c)]_vars

\* C5 as stated: a failure of the operation observed while the breaker is
\* HALF_OPEN moves it to OPEN, failureCount >= failureThreshold holding, and
\* stamps lastFailureTime with the current time.
C5_HalfOpenFailureReopens ==
  [][\A c \in CbCalls :
       CbFails(c) /\ Circ.state = "HALF_OPEN" =>
         /\ Circ'.state = "OPEN"
         /\ Circ'.failureCount >= cbPolicy.failureThreshold
         /\ Circ'.lastFailureTime = now]_vars

\* C6 as stated: a call on an OPEN breaker whose timeout has elapsed moves it to
\* HALF_OPEN before invoking the operation, and if that operation succeeds the
\* breaker ends CLOSED with failureCount = 0.
C6_TrialSuccessCloses ==
  [][\A c \in CbCalls :
       /\ CbStarts(c) /\ Circ.state = "OPEN" /\ ~CbCooling =>
            /\ Circ'.state = "HALF_OPEN"
            /\ cbCall'[c].pc = "op" /\ cbCall'[c].trial
       /\ CbSucceeds(c) /\ cbCall[c].trial =>
            /\ Circ'.state = "CLOSED"
            /\ Circ'.failureCount = 0]_vars

\* a call given a fallback never hands its caller the primary's error or the
\* circuit-open error
C7_CallerGetsFallback ==
  cbLast.pc = "done" /\ cbLast.fallback =>
    /\ cbLast.result \in {"opValue", "fbValue", "fbError"}
    /\ cbLast.result = "opValue" <=> cbLast.via = "primary"

C7_Step ==
  \A c \in CbCalls :
    \* the primary fails: the failure is recorded, the fallback takes over
    /\ CbFails(c) /\ cbCall[c].fallback =>
         /\ cbCall'[c].pc = "fallback"
         /\ Circ'.failureCount = Circ.failureCount + 1
         /\ Circ'.lastFailureTime = now
         /\ Circ'.failureCount >= cbPolicy.failureThreshold => Circ'.state = "OPEN"
    \* OPEN in cooldown: the fallback takes over
    /\ CbStarts(c) /\ cbCall'[c].fallback /\ Circ.state = "OPEN" /\ CbCooling =>
         cbCall'[c].pc = "fallback"
    \* the fallback settles: its value or its error, the breaker untouched
    /\ CbFallbackReturns(c) =>
         /\ cbCall'[c].pc = "idle"
         /\ cbLast'.result \in {"fbValue", "fbError"}
         /\ circuitBreakers' = circuitBreakers

\* C7: with a fallback, the caller receives the fallback's result or the
\* fallback's own error whenever the primary fails or the breaker is OPEN in
\* cooldown; the primary failure is still recorded (failureCount,
\* lastFailureTime, the move to OPEN at the threshold) and the fallback's
\* success or failure never changes the breaker.
C7_FallbackPolicy == []C7_CallerGetsFallback /\ [][C7_Step]_vars

\* C7 witness: a primary failure tripped the breaker, and the caller got the
\* error of the fallback that took over
C7_Witness ==
  /\ cbLast.pc = "done" /\ cbLast.fallback
  /\ cbLast.via = "failed" /\ cbLast.result = "fbError"
  /\ Circ.state = "OPEN"
  /\ Circ.lastFailureTime > 0

(***************************************************************************)
(* PredictablePerformanceService.withRateLimit (cache.service.ts 292-325). *)
(* Time is counted in units of which intervalMs holds an even number, so   *)
(* that the timer period intervalMs / 2 is a whole number of units.  The   *)
(* clock is kept relative: elapsed is Date.now() - lastRefill.             *)
(***************************************************************************)
RlState ==
  [tokens |-> tokens, elapsed |-> elapsed, queue |-> rlQueue, st |-> rlSt,
   age |-> rlAge, ranWith |-> rlRanWith, startSeq |-> rlStartSeq,
   enqSeq |-> rlEnqSeq]

RlAssign(s) ==
  /\ tokens' = s.tokens
  /\ elapsed' = s.elapsed
  /\ rlQueue' = s.queue
  /\ rlSt' = s.st
  /\ rlAge' = s.age
  /\ rlRanWith' = s.ranWith
  /\ rlStartSeq' = s.startSeq
  /\ rlEnqSeq' = s.enqSeq

\* fn(...args) on behalf of caller k; fn is async and returns a promise
invoke(s, args, k) ==
  [s EXCEPT !.st[k] = "running",
            !.age[k] = 0,
            !.ranWith[k] = args,
            !.startSeq = Append(@, k)]

\* mutant: no token is paid for an invocation
TakeToken_Free(s) == s

\* tokens--
TakeToken(s) == [s EXCEPT !.tokens = @ - 1]

\* mutant: while (tokens > 1 && queue.length > 0)
RECURSIVE drain_KeepOne(_)
drain_KeepOne(s) ==
  IF s.tokens > 1 /\ Len(s.queue) > 0
  THEN drain_KeepOne(invoke(TakeToken([s EXCEPT !.queue = Tail(@)]),
                            Head(s.queue).args, Head(s.queue).k))
  ELSE s

\* while (tokens > 0 && queue.length > 0) { shift; tokens--; fn(...args) }
RECURSIVE drain(_)
drain(s) ==
  IF s.tokens > 0 /\ Len(s.queue) > 0
  THEN drain(invoke(TakeToken([s EXCEPT !.queue = Tail(@)]),
                    Head(s.queue).args, Head(s.queue).k))
  ELSE s

\* mutant: elapsed >= intervalMs
RefillDue_NotStrict(s) == s.elapsed >= intervalMs

\* if (elapsed > intervalMs)
RefillDue(s) == s.elapsed > intervalMs

\* mutant: the refill does not start the calls that wait
refill_NoDrain(s) ==
  IF RefillDue(s)
  THEN [s EXCEPT !.tokens = rate, !.elapsed = 0]
  ELSE s

\* refill()
refill(s) ==
  IF RefillDue(s)
  THEN drain([s EXCEPT !.tokens = rate, !.elapsed = 0])
  ELSE s

\* mutant: queue.unshift in place of queue.push
RlEnqueue_Front(s, c) ==
  [s EXCEPT !.queue = <<[args |-> c, k |-> c]>> \o @,
            !.enqSeq = Append(@, c),
            !.st[c] = "queued"]

\* queue.push({args, resolve, reject})
RlEnqueue(s, c) ==
  [s EXCEPT !.queue = Append(@, [args |-> c, k |-> c]),
            !.enqSeq = Append(@, c),
            !.st[c] = "queued"]

\* mutant: the last token is kept back (if (tokens > 1))
limited_KeepsReserve(s, c) ==
  LET r == refill(s)
  IN IF r.tokens > 1
     THEN invoke(TakeToken(r), c, c)
     ELSE RlEnqueue(r, c)

\* the function withRateLimit returns, called by caller c with arguments c
limited(s, c) ==
  LET r == refill(s)
  IN IF r.tokens > 0
     THEN invoke(TakeToken(r), c, c)
     ELSE RlEnqueue(r, c)

Later(x, cap) == IF x < cap THEN x + 1 ELSE cap

RlInit ==
  /\ rate \in 0..MaxRate
  /\ intervalMs \in {2 * h : h \in 1..MaxHalfInterval}
  /\ tokens = rate
  /\ elapsed = 0
  /\ timerIn = intervalMs \div 2
  /\ rlQueue = <<>>
  /\ rlSt = [c \in RlCalls |-> "new"]
  /\ rlAge = [c \in RlCalls |-> 0]
  /\ rlRanWith = [c \in RlCalls |-> 0]
  /\ rlStartSeq = <<>> /\ rlEnqSeq = <<>>

\* caller c calls the rate-limited function (callers are numbered in calling order)
RlCall(c) ==
  /\ rlSt[c] = "new"
  /\ \A d \in RlCalls : d < c => rlSt[d] # "new"
  /\ RlAssign(limited(RlState, c))
  /\ UNCHANGED <<rate, intervalMs, timerIn, notRl>>

\* setInterval(refill, intervalMs / 2): the timer is due
RlTimer ==
  /\ timerIn = 0
  /\ RlAssign(refill(RlState))
  /\ timerIn' = intervalMs \div 2
  /\ UNCHANGED <<rate, intervalMs, notRl>>

\* one unit of time passes; a timer that is due fires first
RlTick ==
  /\ timerIn > 0
  /\ timerIn' = timerIn - 1
  /\ elapsed' = Later(elapsed, intervalMs + 1)
  /\ rlAge' = [c \in RlCalls |->
                 IF rlRanWith[c] # 0 THEN Later(rlAge[c], intervalMs) ELSE rlAge[c]]
  /\ UNCHANGED <<rate, intervalMs, tokens, rlQueue, rlSt, rlRanWith, rlStartSeq,
                 rlEnqSeq, notRl>>

\* the promise fn returned for caller c settles; .then(resolve).catch(reject)
RlFnSettle(c) ==
  /\ rlSt[c] = "running"
  /\ \E res \in {"ok", "err"} : rlSt' = [rlSt EXCEPT ![c] = res]
  /\ UNCHANGED <<rate, intervalMs, tokens, elapsed, timerIn, rlQueue, rlAge,
                 rlRanWith, rlStartSeq, rlEnqSeq, notRl>>

RlNext ==
  \/ \E c \in RlCalls : RlCall(c) \/ RlFnSettle(c)
  \/ RlTimer
  \/ RlTick

InitRL == BpQuiet /\ CbQuiet /\ RlInit /\ RtQuiet /\ CaQuiet /\ ClQuiet /\ EeQuiet /\ ToQuiet /\ GbQuiet /\ RgQuiet

SpecRL == InitRL /\ [][RlNext]_vars

\* time passes, the timer keeps firing and every promise fn returns settles
RlFair ==
  /\ WF_vars(RlTick)
  /\ WF_vars(RlTimer)
  /\ \A c \in RlCalls : WF_vars(RlFnSettle(c))

SpecRLFair == SpecRL /\ RlFair

(***************************************************************************)
(* Backpressure with an async fn whose promises settle: properties.        *)
(***************************************************************************)
\* the .finally reaction of caller c runs in this step
BpReleasing(c) == callSt[c] = "settled" /\ callSt'[c] = "done"

C11_ReleaseStep ==
  \A c \in BpCalls :
    BpReleasing(c) =>
      IF queue = <<>>
      THEN active' = active - 1 /\ startSeq' = startSeq
      ELSE /\ active' = active
           /\ queue' = Tail(queue)
           /\ startSeq' = Append(startSeq, Head(queue).k)
           /\ callSt'[Head(queue).k] = "running"

\* no operation in flight: no slot is held and nobody waits
C11_NoLeak ==
  (\A c \in BpCalls : callSt[c] \notin {"running", "settled"})
    => active = 0 /\ queue = <<>>

\* C11: when an admitted operation settles, fulfilled or failed, the wrapper
\* decrements active and starts the head of the queue if one waits; so, every
\* started operation settling, every enqueued call is eventually started and
\* eventually settles, and a failed operation does not keep its slot.
C11_SettleReleases ==
  /\ [][C11_ReleaseStep]_vars
  /\ []C11_NoLeak
  /\ \A c \in BpCalls :
       (callSt[c] = "queued") ~> (callSt[c] = "done" /\ outcome[c] \in {"ok", "err"})

\* C11 witness: an operation failed, its slot was released, and a call that
\* waited behind it was started and has settled
C11_Witness ==
  /\ Len(enqSeq) >= 1
  /\ \E c \in BpCalls : callSt[c] = "done" /\ outcome[c] = "err" /\ c < enqSeq[1]
  /\ callSt[enqSeq[1]] = "done"
  /\ active = 0

C12_OwnOutcome ==
  \A c \in BpCalls :
    \* fn is invoked for a caller with that caller's arguments only
    /\ ranWith[c] \in {0, c}
    \* the operation's settlement is the caller's, for the caller's arguments
    /\ callSt[c] \in {"settled", "done"} <=> outcome[c] \in {"ok", "err"}
    /\ outcome[c] \in {"ok", "err"} => ranWith[c] = c
    \* the wrapper's own failure: queue overflow, fn not invoked
    /\ outcome[c] = "overflow" <=> callSt[c] = "overflow"
    /\ outcome[c] = "overflow" => ranWith[c] = 0

C12_SettlesOnce ==
  \A c \in BpCalls : outcome[c] # "pending" => outcome'[c] = outcome[c]

\* C12: every admitted call, admitted at once or from the queue, settles exactly
\* once, with the result or failure of the operation invoked with its own
\* arguments; the wrapper delivers no other call's outcome and fails a call
\* itself only for queue overflow.
C12_PerCallIdentity ==
  /\ []C12_OwnOutcome
  /\ [][C12_SettlesOnce]_vars
  /\ \A c \in BpCalls :
       (callSt[c] \in {"queued", "running"}) ~> (outcome[c] \in {"ok", "err"})

\* C12 witness: a call that waited in the queue got its own operation's failure
\* while a call admitted at once got its own result and a third was rejected
C12_Witness ==
  /\ Len(enqSeq) >= 1
  /\ outcome[enqSeq[1]] = "err" /\ ranWith[enqSeq[1]] = enqSeq[1]
  /\ outcome[1] = "ok" /\ ranWith[1] = 1
  /\ \E c \in BpCalls : outcome[c] = "overflow"

(***************************************************************************)
(* Rate limiter: properties.                                               *)
(***************************************************************************)
RlStarted(c) == rlRanWith[c] # 0

\* a step in which the body of refill ran: lastRefill moved up to Date.now()
RlRefilling == elapsed' < elapsed

\* the calls fn is invoked for in this step, in order
RlNewStarts == SubSeq(rlStartSeq', Len(rlStartSeq) + 1, Len(rlStartSeq'))

C13_TokensInRange == tokens \in 0..rate

C13_Step ==
  /\ tokens' > tokens => RlRefilling
  /\ RlRefilling => elapsed > intervalMs

\* C13: tokens starts at rate and stays within 0..rate; tokens increases only in
\* a refill; a refill comes more than intervalMs after the one before it (or
\* after construction).
C13_TokenBucket ==
  /\ tokens = rate
  /\ []C13_TokensInRange
  /\ [][C13_Step]_vars

\* C13 witness: tokens were spent and a later refill has set them back to rate
C13_Witness ==
  /\ rate >= 1 /\ tokens = rate
  /\ Len(rlStartSeq) >= rate
  /\ elapsed = 0

\* the invocations of fn that began less than intervalMs ago
RlRecentStarts == {c \in RlCalls : RlStarted(c) /\ rlAge[c] < intervalMs}

\* C14: in any window of length intervalMs at most rate invocations of fn
\* start, whatever the schedule of calls and timer firings.
C14_WindowBound == Cardinality(RlRecentStarts) <= rate

\* C15: with rate = 1, the second of two calls, which finds no token, is not
\* started before intervalMs after the first was started, at whatever moment
\* of the wrapper's lifetime the calls are issued.
C15_SecondWaitsInterval ==
  rate = 1 =>
    \A i, j \in 1..Len(rlStartSeq) :
      (/\ i < j
       /\ \E n \in 1..Len(rlEnqSeq) : rlEnqSeq[n] = rlStartSeq[j]
       /\ rlAge[rlStartSeq[j]] = 0)
        => rlAge[rlStartSeq[i]] >= intervalMs

\* C16: with rate >= 1, the timer firing and every started operation settling,
\* every queued call is eventually started and settles with the outcome of
\* the operation invoked with its own arguments.
C16_QueuedEventuallyServed ==
  \A c \in RlCalls :
    (rate >= 1 /\ rlSt[c] = "queued")
      ~> (rlSt[c] \in {"ok", "err"} /\ rlRanWith[c] = c)

\* C16 witness: calls that waited in the queue have settled, one fulfilled
\* and one failed
C16_Witness ==
  /\ Len(rlEnqSeq) >= 2
  /\ rlSt[rlEnqSeq[1]] = "ok" /\ rlRanWith[rlEnqSeq[1]] = rlEnqSeq[1]
  /\ rlSt[rlEnqSeq[2]] = "err" /\ rlRanWith[rlEnqSeq[2]] = rlEnqSeq[2]

RlMin(a, b) == IF a <= b THEN a ELSE b

\* the wrapper is called in this step
RlCalling(c) == rlSt[c] = "new" /\ rlSt'[c] # "new"

\* the timer fires in this step
RlFiring == timerIn' > timerIn

\* what a refill does to the queue: the first n waiting calls are started, in
\* order and with their own arguments
RlStartsHead(n) ==
  /\ Len(rlStartSeq') >= Len(rlStartSeq) + n
  /\ \A i \in 1..n :
       /\ rlStartSeq'[Len(rlStartSeq) + i] = rlQueue[i].k
       /\ rlRanWith'[rlQueue[i].k] = rlQueue[i].args
  /\ \A i \in 1..Len(rlQueue) : i > n => rlSt'[rlQueue[i].k] = "queued"

C17_Step ==
  LET n == RlMin(rate, Len(rlQueue))
  IN (RlFiring \/ \E c \in RlCalls : RlCalling(c)) =>
       /\ RlRefilling <=> elapsed > intervalMs
       /\ RlRefilling =>
            /\ elapsed' = 0
            /\ RlStartsHead(n)
            /\ RlFiring =>
                 /\ tokens' = rate - n
                 /\ rlQueue' = SubSeq(rlQueue, n + 1, Len(rlQueue))
                 /\ Len(rlStartSeq') = Len(rlStartSeq) + n
            /\ tokens' = 0 \/ rlQueue' = <<>>
       /\ ~RlRefilling =>
            \A d \in RlCalls : rlSt[d] = "queued" => rlSt'[d] = "queued"

\* C17: a refill happens, on a call or a timer firing, exactly when the time
\* since lastRefill exceeds intervalMs; it sets tokens to rate and lastRefill
\* to now and starts min(rate, queue length) waiting calls from the head, in
\* order; afterwards tokens is 0 or the queue is empty.
C17_RefillStep == [][C17_Step]_vars

\* C17 witness: a refill has started the head of a longer queue
C17_Witness ==
  /\ Len(rlEnqSeq) >= 2
  /\ RlStarted(rlEnqSeq[1]) /\ rlSt[rlEnqSeq[2]] = "queued"
  /\ elapsed = 0 /\ tokens = 0

\* tokens as the wrapper finds them once its lazy refill() has run
RlTokensAtCall ==
  IF elapsed > intervalMs THEN rate - RlMin(rate, Len(rlQueue)) ELSE tokens

C18_Step ==
  \A c \in RlCalls :
    RlCalling(c) =>
      IF RlTokensAtCall > 0
      THEN /\ rlSt'[c] = "running" /\ rlRanWith'[c] = c
           /\ rlStartSeq'[Len(rlStartSeq')] = c
           /\ tokens' = RlTokensAtCall - 1
      ELSE /\ rlSt'[c] = "queued" /\ rlRanWith'[c] = 0
           /\ Len(rlQueue') >= 1 /\ rlQueue'[Len(rlQueue')].k = c
           /\ tokens' = 0

\* a caller sees a failure only from the operation invoked with its arguments
C18_OwnFailuresOnly ==
  \A c \in RlCalls :
    /\ rlSt[c] \in {"new", "queued", "running", "ok", "err"}
    /\ rlSt[c] \in {"ok", "err"} => rlRanWith[c] = c
    /\ rlSt[c] \in {"new", "queued"} <=> rlRanWith[c] = 0

\* C18: the rate limiter never rejects a call and puts no bound on its queue:
\* a call that finds tokens > 0 after the lazy refill pays one token and
\* invokes the operation at once, a call that finds tokens = 0 is queued, and
\* the only failures a caller sees are those of its own operation.
C18_NeverRejects ==
  /\ [][C18_Step]_vars
  /\ []C18_OwnFailuresOnly

\* C18 witness: a call was served at once and its operation failed, while the
\* calls after it found no token and wait
C18_Witness ==
  /\ rlSt[1] = "err" /\ tokens = 0
  /\ Len(rlQueue) = NumRlCalls - 1

\* position of caller c in the order of invocations (0: fn not invoked for c)
RlStartPos(c) ==
  IF \E i \in 1..Len(rlStartSeq) : rlStartSeq[i] = c
  THEN CHOOSE i \in 1..Len(rlStartSeq) : rlStartSeq[i] = c
  ELSE 0

\* C19: the rate limiter's queue is first in, first out: of two calls that
\* were queued, the one queued first is started first, and no call issued
\* later starts its operation while an earlier call still waits in the queue.
C19_RlFifo ==
  /\ \A i, j \in 1..Len(rlEnqSeq) :
       (i < j /\ RlStarted(rlEnqSeq[j]))
         => /\ RlStarted(rlEnqSeq[i])
            /\ RlStartPos(rlEnqSeq[i]) < RlStartPos(rlEnqSeq[j])
  /\ \A c, d \in RlCalls :
       (rlSt[c] = "queued" /\ c < d) => ~RlStarted(d)

\* C19 witness: two calls that waited behind a running one were started in
\* their order of arrival, by different refills
C19_Witness ==
  /\ Len(rlEnqSeq) >= 2 /\ rate = 1
  /\ RlStartPos(rlEnqSeq[1]) >= 1
  /\ RlStartPos(rlEnqSeq[1]) < RlStartPos(rlEnqSeq[2])

(***************************************************************************)
(* ResilienceService.withRetry (part_004 66-103).  The result of the k-th  *)
(* invocation of operation() is the value k or the error k; an error is    *)
(* "fatal" when shouldRetry returns false for it.                          *)
(***************************************************************************)
RetryOptions ==
  [maxAttempts : -1..MaxRetryAttempts,
   delayMs : 1..MaxDelay,
   backoffMultiplier : {{}} \cup {{m} : m \in 1..MaxMultiplier},
   shouldRetry : BOOLEAN]

\* const { ..., backoffMultiplier = 2, ... } = options
backoffMultiplier ==
  IF rtOptions.backoffMultiplier = {}
  THEN 2
  ELSE CHOOSE m \in rtOptions.backoffMultiplier : TRUE

RtState ==
  [pc |-> rtPc, attempt |-> attempt, currentDelay |-> currentDelay,
   lastError |-> lastError, invoked |-> rtInvoked, ops |-> rtOps,
   outcome |-> rtOutcome, delayLeft |-> rtDelayLeft, waits |-> rtWaits]

RtAssign(s) ==
  /\ rtPc' = s.pc
  /\ attempt' = s.attempt
  /\ currentDelay' = s.currentDelay
  /\ lastError' = s.lastError
  /\ rtInvoked' = s.invoked
  /\ rtOps' = s.ops
  /\ rtOutcome' = s.outcome
  /\ rtDelayLeft' = s.delayLeft
  /\ rtWaits' = s.waits

\* throw e
RtThrow(s, e) == [s EXCEPT !.pc = "threw", !.outcome = [kind |-> "error", of |-> e]]

\* the loop test and what follows it: await operation(), or throw lastError
\* after the loop
loopTest(s) ==
  IF s.attempt <= rtOptions.maxAttempts
  THEN [s EXCEPT !.pc = "op", !.invoked = @ + 1]
  ELSE RtThrow(s, s.lastError)

\* mutant: for (let attempt = 0; ...)
RtEnter_FromZero(s) ==
  loopTest([s EXCEPT !.attempt = 0, !.currentDelay = rtOptions.delayMs])

\* the call up to its first await: let currentDelay = delayMs; attempt = 1
RtEnter(s) ==
  loopTest([s EXCEPT !.attempt = 1, !.currentDelay = rtOptions.delayMs])

\* mutant: the result is kept and the loop goes on
RtAfterSuccess_Continues(s) ==
  loopTest([s EXCEPT !.ops = Append(@, "ok"), !.attempt = @ + 1])

\* return result
RtAfterSuccess(s) ==
  [s EXCEPT !.ops = Append(@, "ok"),
            !.pc = "returned",
            !.outcome = [kind |-> "value", of |-> s.invoked]]

\* mutant: shouldRetry is not consulted
RtGivesUp_Never(kind) == FALSE

\* shouldRetry && !shouldRetry(error)
RtGivesUp(kind) == rtOptions.shouldRetry /\ kind = "fatal"

\* mutant: no break after the final attempt; the loop test ends the loop
RtAfterFailure_NoBreak(s, kind) ==
  LET f == [s EXCEPT !.ops = Append(@, kind), !.lastError = s.invoked]
  IN IF RtGivesUp(kind)
     THEN RtThrow(f, s.invoked)
     ELSE [f EXCEPT !.pc = "delay",
                    !.delayLeft = f.currentDelay,
                    !.waits = Append(@, f.currentDelay)]

\* the catch block: lastError = error; break, throw error, or await delay
RtAfterFailure(s, kind) ==
  LET f == [s EXCEPT !.ops = Append(@, kind), !.lastError = s.invoked]
  IN IF f.attempt = rtOptions.maxAttempts
     THEN RtThrow(f, f.lastError)
     ELSE IF RtGivesUp(kind)
          THEN RtThrow(f, s.invoked)
          ELSE [f EXCEPT !.pc = "delay",
                         !.delayLeft = f.currentDelay,
                         !.waits = Append(@, f.currentDelay)]

\* mutant: the delay stays what it was
RtAfterDelay_NoBackoff(s) == loopTest([s EXCEPT !.attempt = @ + 1])

\* the delay is over: currentDelay *= backoffMultiplier; attempt++
RtAfterDelay(s) ==
  loopTest([s EXCEPT !.currentDelay = @ * backoffMultiplier,
                     !.attempt = @ + 1])

RtInit ==
  /\ rtOptions \in RetryOptions
  /\ rtPc = "idle" /\ attempt = 0 /\ currentDelay = 0 /\ lastError = 0
  /\ rtInvoked = 0 /\ rtOps = <<>> /\ rtOutcome = RtPending
  /\ rtDelayLeft = 0 /\ rtWaits = <<>>

RtCall ==
  /\ rtPc = "idle"
  /\ RtAssign(RtEnter(RtState))
  /\ UNCHANGED <<rtOptions, notRt>>

RtOpSucceed ==
  /\ rtPc = "op"
  /\ RtAssign(RtAfterSuccess(RtState))
  /\ UNCHANGED <<rtOptions, notRt>>

RtOpFail ==
  /\ rtPc = "op"
  /\ \E kind \in {"err", "fatal"} : RtAssign(RtAfterFailure(RtState, kind))
  /\ UNCHANGED <<rtOptions, notRt>>

\* one unit of the delay passes
RtTick ==
  /\ rtPc = "delay" /\ rtDelayLeft > 0
  /\ rtDelayLeft' = rtDelayLeft - 1
  /\ UNCHANGED <<rtOptions, rtPc, attempt, currentDelay, lastError, rtInvoked,
                 rtOps, rtOutcome, rtWaits, notRt>>

\* the timer of delay() fires
RtDelayDone ==
  /\ rtPc = "delay" /\ rtDelayLeft = 0
  /\ RtAssign(RtAfterDelay(RtState))
  /\ UNCHANGED <<rtOptions, notRt>>

RtNext == RtCall \/ RtOpSucceed \/ RtOpFail \/ RtTick \/ RtDelayDone

InitRT == BpQuiet /\ CbQuiet /\ RlQuiet /\ RtInit /\ CaQuiet /\ ClQuiet /\ EeQuiet /\ ToQuiet /\ GbQuiet /\ RgQuiet

SpecRT == InitRT /\ [][RtNext]_vars

(***************************************************************************)
(* Retry: properties.                                                      *)
(***************************************************************************)
C20_Bounded ==
  /\ rtOptions.maxAttempts >= 0 => rtInvoked <= rtOptions.maxAttempts
  /\ Len(rtOps) = rtInvoked - (IF rtPc = "op" THEN 1 ELSE 0)
  \* a success is the last thing the operation did, and it is what is returned
  /\ \A k \in 1..Len(rtOps) :
       rtOps[k] = "ok" =>
         /\ k = Len(rtOps) /\ rtInvoked = k
         /\ rtPc = "returned" /\ rtOutcome = [kind |-> "value", of |-> k]
  /\ rtPc = "returned" => Len(rtOps) >= 1 /\ rtOps[Len(rtOps)] = "ok"

\* C20: withRetry invokes the operation at most maxAttempts times, and when an
\* attempt succeeds it returns that attempt's result without invoking the
\* operation again.
C20_AtMostMaxAttempts ==
  /\ []C20_Bounded
  /\ [][rtPc = "returned" => rtInvoked' = rtInvoked]_vars

\* C20 witness: maxAttempts = 3, the operation failed twice and then
\* succeeded; the third result is returned after exactly 3 invocations
C20_Witness ==
  /\ rtOptions.maxAttempts = 3
  /\ rtOps = <<"err", "err", "ok">>
  /\ rtInvoked = 3
  /\ rtOutcome = [kind |-> "value", of |-> 3]

\* shouldRetry has returned false for no error so far (it is asked about the
\* errors of the attempts before the final one only)
RtNeverGaveUp ==
  \A k \in 1..Len(rtOps) : k < rtOptions.maxAttempts => ~RtGivesUp(rtOps[k])

C21_Exhausted ==
  (rtOptions.maxAttempts >= 1 /\ rtPc = "threw" /\ RtNeverGaveUp)
    => /\ Len(rtOps) = rtOptions.maxAttempts
       /\ \A k \in 1..Len(rtOps) : rtOps[k] # "ok"
       /\ rtInvoked = rtOptions.maxAttempts
       /\ rtOutcome = [kind |-> "error", of |-> rtOptions.maxAttempts]
       /\ Len(rtWaits) = rtOptions.maxAttempts - 1

\* the failure of the final attempt is raised in the step it is caught
C21_FinalStep ==
  (rtPc = "op" /\ attempt = rtOptions.maxAttempts /\ rtPc' # "returned"
     /\ rtOps' # rtOps)
    => rtPc' = "threw" /\ rtWaits' = rtWaits /\ rtInvoked' = rtInvoked

\* C21: when all maxAttempts attempts fail and shouldRetry never returns
\* false, withRetry raises the error of attempt maxAttempts after exactly
\* maxAttempts invocations, without waiting after the final attempt.
C21_LastErrorRaised ==
  /\ []C21_Exhausted
  /\ [][C21_FinalStep]_vars

\* C21 witness: maxAttempts = 2 and the operation keeps failing; the second
\* failure is raised after one wait
C21_Witness ==
  /\ rtOptions.maxAttempts = 2
  /\ rtOps = <<"err", "err">>
  /\ rtOutcome = [kind |-> "error", of |-> 2]
  /\ Len(rtWaits) = 1

\* C22: when shouldRetry is provided and returns false for the error of an
\* attempt, that error is raised at once: no delay is awaited for it and the
\* operation is not invoked again, however many attempts remain.
C22_NonRetryableRaised ==
  \A k \in 1..Len(rtOps) :
    (rtOptions.shouldRetry /\ rtOps[k] = "fatal") =>
      /\ k = Len(rtOps) /\ rtInvoked = k
      /\ rtPc = "threw"
      /\ rtOutcome = [kind |-> "error", of |-> k]
      /\ Len(rtWaits) = k - 1 /\ rtDelayLeft = 0

\* C22 witness: the second of three or more allowed attempts failed with an
\* error shouldRetry refuses; it is raised with attempts left
C22_Witness ==
  /\ rtOptions.shouldRetry /\ rtOptions.maxAttempts >= 3
  /\ rtOps = <<"err", "fatal">>
  /\ rtPc = "threw" /\ rtOutcome = [kind |-> "error", of |-> 2]
  /\ rtInvoked = 2 /\ Len(rtWaits) = 1

RECURSIVE RtPow(_, _)
RtPow(b, e) == IF e = 0 THEN 1 ELSE b * RtPow(b, e - 1)

\* the multiplier the caller asked for, 2 when none was given
RtAskedMultiplier ==
  IF \E m \in 1..MaxMultiplier : rtOptions.backoffMultiplier = {m}
  THEN CHOOSE m \in 1..MaxMultiplier : rtOptions.backoffMultiplier = {m}
  ELSE 2

C23_Gaps ==
  /\ \A k \in 1..Len(rtWaits) :
       rtWaits[k] = rtOptions.delayMs * RtPow(RtAskedMultiplier, k - 1)
  \* one wait between consecutive attempts
  /\ rtPc = "op" => Len(rtWaits) = rtInvoked - 1
  /\ rtPc = "delay" => Len(rtWaits) = rtInvoked /\ rtDelayLeft <= rtWaits[Len(rtWaits)]

\* a later attempt starts from a delay that has run out
C23_StartsAfterWait ==
  (rtInvoked' = rtInvoked + 1 /\ rtInvoked >= 1)
    => rtPc = "delay" /\ rtDelayLeft = 0

\* C23: between failed attempt k and attempt k + 1 withRetry waits
\* delayMs * backoffMultiplier^(k-1) (multiplier 2 when not given), and
\* attempt k + 1 does not start before that wait has elapsed.
C23_Backoff ==
  /\ []C23_Gaps
  /\ [][C23_StartsAfterWait]_vars

\* C23 witness: with the default multiplier, the third attempt has started
\* after waits of delayMs and 2 * delayMs
C23_Witness ==
  /\ rtOptions.backoffMultiplier = {} /\ rtOptions.delayMs = 2
  /\ rtWaits = <<2, 4>>
  /\ rtInvoked = 3 /\ rtPc = "op"

(***************************************************************************)
(* CacheService (cache.service.ts 19-262).  The field cache is a plain     *)
(* object: reading this.cache[key] finds an own property or, failing that, *)
(* a member of Object.prototype.  Own properties are kept in insertion     *)
(* order, the order Object.entries walks them.  The clock advances by      *)
(* whole seconds.  The interval timer of startPeriodicCleanup may fire at  *)
(* any moment or not at all, so destroy(), which stops it and empties the  *)
(* cache, is clear() here.                                                 *)
(***************************************************************************)
MsPerSecond == 1000

\* keys: "k251" stands for a string of 251 characters
CacheKeys == {"", "a", "b", "k251", "constructor"}

KeyLength(key) ==
  CASE key = "" -> 0
    [] key = "a" -> 1
    [] key = "b" -> 1
    [] key = "k251" -> 251
    [] key = "constructor" -> 11

\* an application uses ordinary keys, or keys among which one is the name of
\* a member of Object.prototype, or keys some of which are invalid
KeyUniverses == {{"a", "b"}, {"a", "constructor"}, {"", "k251", "a"}}

\* names every object inherits from Object.prototype
ObjectPrototypeKeys == {"constructor"}

CacheValues ==
  {Primitive(1),
   ObjectOf(<<"due", "tags">>, <<DateOf(5), ArrayOf(<<Primitive(2), DateOf(7)>>)>>)}

\* mutant: without the instanceof Date branch a date is copied as a plain
\* object, and it has no own enumerable property
RECURSIVE deepClone_DateAsObject(_)
deepClone_DateAsObject(obj) ==
  CASE obj.kind = "prim" -> obj
    [] obj.kind = "date" -> ObjectOf(<<>>, <<>>)
    [] obj.kind = "array" ->
         ArrayOf([i \in 1..Len(obj.items) |-> deepClone_DateAsObject(obj.items[i])])
    [] obj.kind = "object" ->
         ObjectOf(obj.names,
                  [i \in 1..Len(obj.items) |-> deepClone_DateAsObject(obj.items[i])])

\* deepClone(obj)
RECURSIVE deepClone(_)
deepClone(obj) ==
  CASE obj.kind = "prim" -> obj
    [] obj.kind = "date" -> DateOf(obj.v)
    [] obj.kind = "array" ->
         ArrayOf([i \in 1..Len(obj.items) |-> deepClone(obj.items[i])])
    [] obj.kind = "object" ->
         ObjectOf(obj.names, [i \in 1..Len(obj.items) |-> deepClone(obj.items[i])])

\* mutant: key.length <= 251
isValidKey_Long(key) == KeyLength(key) > 0 /\ KeyLength(key) <= 251

\* isValidKey(key)
isValidKey(key) == KeyLength(key) > 0 /\ KeyLength(key) <= 250

HasOwn(c, key) == \E i \in 1..Len(c) : c[i].key = key

OwnItem(c, key) == c[CHOOSE i \in 1..Len(c) : c[i].key = key]

\* this.cache[key] is truthy; key in this.cache
Found(c, key) == HasOwn(c, key) \/ key \in ObjectPrototypeKeys

\* delete this.cache[key]
Remove(c, key) == SelectSeq(c, LAMBDA e : e.key # key)

\* this.cache[key] = item
Put(c, item) ==
  IF HasOwn(c, item.key)
  THEN [i \in 1..Len(c) |-> IF c[i].key = item.key THEN item ELSE c[i]]
  ELSE Append(c, item)

\* mutant: item.expiresAt <= now
Expired_Early(item, now_) == item.expiresAt <= now_

\* item.expiresAt < now
Expired(item, now_) == item.expiresAt < now_

\* cleanupExpiredItems()
cleanupExpiredItems(c, now_) == SelectSeq(c, LAMBDA e : ~Expired(e, now_))

\* the loop of evictLeastRecentlyUsed from entry i on
RECURSIVE FindOldest(_, _, _, _)
FindOldest(c, i, oldestKey, oldestTime) ==
  IF i > Len(c)
  THEN oldestKey
  ELSE IF c[i].lastAccessed < oldestTime
       THEN FindOldest(c, i + 1, c[i].key, c[i].lastAccessed)
       ELSE FindOldest(c, i + 1, oldestKey, oldestTime)

\* mutant: evicts the entry inserted first
evictLeastRecentlyUsed_First(c, now_) == IF Len(c) > 0 THEN Tail(c) ELSE c

\* evictLeastRecentlyUsed(): oldestTime starts at Date.now()
evictLeastRecentlyUsed(c, now_) ==
  LET oldestKey == FindOldest(c, 1, "", now_)
  IN IF oldestKey # "" THEN Remove(c, oldestKey) ELSE c

\* Object.keys(this.cache).length >= this.maxKeys && !this.cache[key]
MustEvict(c, key) == Len(c) >= maxKeys /\ ~Found(c, key)

\* set(key, value, ttlSeconds); an invalid key throws inside the try block
set(c, key, value, ttlSeconds, now_) ==
  IF ~isValidKey(key)
  THEN c
  ELSE Put(IF MustEvict(c, key) THEN evictLeastRecentlyUsed(c, now_) ELSE c,
           [key |-> key,
            value |-> deepClone(value),
            expiresAt |-> now_ + ttlSeconds * MsPerSecond,
            accessCount |-> 0,
            lastAccessed |-> now_])

CaResult(c, op, key, kind, value) ==
  [cache |-> c, ret |-> Returned(op, key, kind, value)]

\* get(key)
get(c, key, now_) ==
  IF ~isValidKey(key) \/ ~Found(c, key)
  THEN CaResult(c, "get", key, "null", Undefined)
  ELSE IF ~HasOwn(c, key)
       \* the item is a member of Object.prototype: its expiresAt and value
       \* are undefined
       THEN CaResult(c, "get", key, "undefined", Undefined)
       ELSE LET item == OwnItem(c, key)
            IN IF Expired(item, now_)
               THEN CaResult(Remove(c, key), "get", key, "null", Undefined)
               ELSE CaResult(Put(c, [item EXCEPT !.accessCount = @ + 1,
                                                 !.lastAccessed = now_]),
                             "get", key, "value", deepClone(item.value))

\* has(key)
has(c, key, now_) ==
  IF ~isValidKey(key) \/ ~Found(c, key)
  THEN CaResult(c, "has", key, "false", Undefined)
  ELSE IF ~HasOwn(c, key)
       THEN CaResult(c, "has", key, "true", Undefined)
       ELSE IF Expired(OwnItem(c, key), now_)
            THEN CaResult(Remove(c, key), "has", key, "false", Undefined)
            ELSE CaResult(c, "has", key, "true", Undefined)

\* delete(key)
delete(c, key) ==
  IF ~isValidKey(key) \/ ~Found(c, key)
  THEN CaResult(c, "delete", key, "false", Undefined)
  ELSE CaResult(Remove(c, key), "delete", key, "true", Undefined)

CaAssign(r) == cache' = r.cache /\ cacheRet' = r.ret

RECURSIVE TotalAccesses(_)
TotalAccesses(c) ==
  IF c = <<>> THEN 0 ELSE Head(c).accessCount + TotalAccesses(Tail(c))

CaInit ==
  /\ cacheKeys \in KeyUniverses
  /\ cache = <<>>
  /\ maxKeys \in 1..MaxKeysBound
  /\ cacheNow = 0
  /\ cacheRet = Returned("none", "", "void", Undefined)
  /\ setExpiry = [key \in cacheKeys |-> -1]

CaSet(key) ==
  /\ key \in cacheKeys
  /\ \E value \in CacheValues, ttlSeconds \in 1..MaxTtl :
       /\ CaAssign(CaResult(set(cache, key, value, ttlSeconds, cacheNow),
                            "set", key, "void", value))
       /\ setExpiry' = IF isValidKey(key)
                       THEN [setExpiry EXCEPT ![key] = cacheNow + ttlSeconds * MsPerSecond]
                       ELSE setExpiry
  /\ UNCHANGED <<cacheKeys, maxKeys, cacheNow, notCa>>

CaGet(key) ==
  /\ key \in cacheKeys
  /\ TotalAccesses(cache) < MaxAccessCount
  /\ CaAssign(get(cache, key, cacheNow))
  /\ UNCHANGED <<cacheKeys, maxKeys, cacheNow, setExpiry, notCa>>

CaHas(key) ==
  /\ key \in cacheKeys
  /\ CaAssign(has(cache, key, cacheNow))
  /\ UNCHANGED <<cacheKeys, maxKeys, cacheNow, setExpiry, notCa>>

CaDelete(key) ==
  /\ key \in cacheKeys
  /\ CaAssign(delete(cache, key))
  /\ UNCHANGED <<cacheKeys, maxKeys, cacheNow, setExpiry, notCa>>

\* clear(); destroy()
CaClear ==
  /\ CaAssign(CaResult(<<>>, "clear", "", "void", Undefined))
  /\ UNCHANGED <<cacheKeys, maxKeys, cacheNow, setExpiry, notCa>>

\* the interval timer of startPeriodicCleanup fires
CaSweep ==
  /\ CaAssign(CaResult(cleanupExpiredItems(cache, cacheNow), "sweep", "", "void",
                       Undefined))
  /\ UNCHANGED <<cacheKeys, maxKeys, cacheNow, setExpiry, notCa>>

\* a second passes
CaTick ==
  /\ cacheNow < MaxCacheSeconds * MsPerSecond
  /\ cacheNow' = cacheNow + MsPerSecond
  /\ UNCHANGED <<cacheKeys, cache, maxKeys, cacheRet, setExpiry, notCa>>

CaNext ==
  \/ \E key \in CacheKeys : CaSet(key) \/ CaGet(key) \/ CaHas(key) \/ CaDelete(key)
  \/ CaClear
  \/ CaSweep
  \/ CaTick

InitCA == BpQuiet /\ CbQuiet /\ RlQuiet /\ RtQuiet /\ CaInit /\ ClQuiet /\ EeQuiet /\ ToQuiet /\ GbQuiet /\ RgQuiet

SpecCA == InitCA /\ [][CaNext]_vars

(***************************************************************************)
(* Cache: properties.                                                      *)
(***************************************************************************)
\* the operation op(key) returns in this step
CaReturns(op, key) ==
  cacheNow' = cacheNow /\ cacheRet'.op = op /\ cacheRet'.key = key

\* the value last set under key has outlived its ttl
PastExpiry(key) == setExpiry[key] >= 0 /\ setExpiry[key] < cacheNow

C24_Step ==
  \A key \in cacheKeys :
    PastExpiry(key) =>
      /\ CaReturns("get", key) =>
           cacheRet'.kind \in {"null", "undefined"} /\ ~HasOwn(cache', key)
      /\ CaReturns("has", key) =>
           cacheRet'.kind = "false" /\ ~HasOwn(cache', key)

\* C24: an entry is never observable past its expiry: a get later than
\* t + ttlSeconds * 1000 returns absent and a has returns false, swept or
\* not, and that get or has removes the expired entry.
C24_NeverVisiblePastExpiry == [][C24_Step]_vars

\* the own entry of key is live: not past its expiry
Live(c, key) == HasOwn(c, key) /\ ~Expired(OwnItem(c, key), cacheNow)

\* some operation returns in this step
CaActs == cacheNow' = cacheNow

C25_Step ==
  \A key \in cacheKeys :
    isValidKey(key) =>
      \* set stores the value it is given, to expire ttlSeconds later
      /\ CaReturns("set", key) =>
           /\ HasOwn(cache', key)
           /\ OwnItem(cache', key).value = cacheRet'.value
           /\ OwnItem(cache', key).expiresAt = setExpiry'[key]
           /\ setExpiry'[key] > cacheNow
      \* nothing but a set of the key changes what is stored under it
      /\ (CaActs /\ HasOwn(cache, key) /\ HasOwn(cache', key) /\ ~CaReturns("set", key))
           => /\ OwnItem(cache', key).value = OwnItem(cache, key).value
              /\ OwnItem(cache', key).expiresAt = OwnItem(cache, key).expiresAt
      \* a live entry goes away by delete, clear or eviction only
      /\ (Live(cache, key) /\ ~HasOwn(cache', key))
           => \/ CaReturns("delete", key)
              \/ cacheRet'.op = "clear"
              \/ cacheRet'.op = "set" /\ cacheRet'.key # key
      \* get of a live entry returns the stored value
      /\ (CaReturns("get", key) /\ Live(cache, key))
           => cacheRet'.kind = "value" /\ cacheRet'.value = OwnItem(cache, key).value

\* C25: get(key) after set(key, v, ttlSeconds), with less than ttlSeconds * 1000
\* ms elapsed and no delete, clear, overwrite or eviction of the key in
\* between, returns a value equal to v.
C25_GetReturnsWhatWasSet == [][C25_Step]_vars

\* C25 witness: a get returned the structured value set under the key, other
\* operations having come in between
C25_Witness ==
  /\ cacheRet.op = "get" /\ cacheRet.kind = "value"
  /\ cacheRet.value \in CacheValues /\ cacheRet.value.kind = "object"
  /\ Len(cache) >= 2
  /\ OwnItem(cache, cacheRet.key).expiresAt > cacheNow
  /\ OwnItem(cache, cacheRet.key) # cache[Len(cache)]

\* C26: after any sequence of cache operations at any timing, the number of
\* entries stored never exceeds maxKeys.
C26_SizeBounded == Len(cache) <= maxKeys

OwnKeys(c) == {c[i].key : i \in 1..Len(c)}

LiveKeys(c) == {key \in OwnKeys(c) : Live(c, key)}

\* the entries no other entry was accessed before
LeastRecentlyUsed(c) ==
  {key \in OwnKeys(c) :
     \A other \in OwnKeys(c) :
       OwnItem(c, key).lastAccessed <= OwnItem(c, other).lastAccessed}

C27_Step ==
  \A key \in cacheKeys :
    (CaReturns("set", key) /\ isValidKey(key)) =>
      IF HasOwn(cache, key) \/ Cardinality(LiveKeys(cache)) < maxKeys
      THEN OwnKeys(cache') = OwnKeys(cache) \cup {key}
      ELSE \E victim \in LeastRecentlyUsed(cache) :
             OwnKeys(cache') = (OwnKeys(cache) \ {victim}) \cup {key}

\* C27: set of a new key evicts only when the number of live entries has
\* reached maxKeys, and then removes exactly one entry, the one with the oldest
\* lastAccessed, before inserting; set of a key already present evicts nothing.
C27_EvictsLeastRecentlyUsed == [][C27_Step]_vars

\* the keys the code must refuse: empty, or longer than 250 characters
InvalidKeys == {key \in CacheKeys : KeyLength(key) = 0 \/ KeyLength(key) > 250}

C28_Step ==
  \A key \in cacheKeys \cap InvalidKeys :
    /\ CaReturns("set", key) => cache' = cache /\ cacheRet'.kind = "void"
    /\ CaReturns("get", key) => cache' = cache /\ cacheRet'.kind = "null"
    /\ CaReturns("has", key) => cache' = cache /\ cacheRet'.kind = "false"
    /\ CaReturns("delete", key) => cache' = cache /\ cacheRet'.kind = "false"

\* C28: cache operations on an invalid key (empty, or longer than 250
\* characters) never raise and never change the cache: set stores nothing, get
\* returns absent, has and delete return false.
C28_InvalidKeysIgnored ==
  /\ [][C28_Step]_vars
  /\ [](OwnKeys(cache) \cap InvalidKeys = {})

\* C28 witness: a set with a key of 251 characters has returned and the entry
\* stored before it is still the only one
C28_Witness ==
  /\ cacheRet.op = "set" /\ cacheRet.key = "k251"
  /\ OwnKeys(cache) = {"a"}

(***************************************************************************)
(* CacheService.deepClone on objects with identity (cache.service.ts       *)
(* 79-100), as set (line 118) and get (line 157) use it for one key.       *)
(***************************************************************************)
Node(kind, v, names, items) == [kind |-> kind, v |-> v, names |-> names, items |-> items]

RECURSIVE CloneSlot(_, _)
RECURSIVE CloneItems(_, _, _, _)

\* obj.map(item => this.deepClone(item)); the for-in loop over own properties
CloneItems(h, items, i, acc) ==
  IF i > Len(items)
  THEN [heap |-> h, items |-> acc]
  ELSE LET c == CloneSlot(h, items[i])
       IN CloneItems(c.heap, items, i + 1, Append(acc, c.slot))

\* mutant: an object or array is copied one level deep ({ ...obj }): what
\* its properties refer to is shared
CloneSlot_Shallow(h, slot) ==
  IF ~slot.isRef
  THEN [heap |-> h, slot |-> slot]
  ELSE [heap |-> Append(h, h[slot.x]), slot |-> RefTo(Len(h) + 1)]

\* deepClone(obj): the heap after the call and the slot returned
CloneSlot(h, slot) ==
  IF ~slot.isRef
  THEN [heap |-> h, slot |-> slot]
  ELSE LET node == h[slot.x]
       IN IF node.kind = "date"
          THEN [heap |-> Append(h, Node("date", node.v, <<>>, <<>>)),
                slot |-> RefTo(Len(h) + 1)]
          ELSE LET r == CloneItems(h, node.items, 1, <<>>)
               IN [heap |-> Append(r.heap, Node(node.kind, 0, node.names, r.items)),
                   slot |-> RefTo(Len(r.heap) + 1)]

\* the objects reachable from a slot
RECURSIVE Reach(_, _)
Reach(h, slot) ==
  IF ~slot.isRef
  THEN {}
  ELSE {slot.x} \cup
       UNION {Reach(h, h[slot.x].items[i]) : i \in 1..Len(h[slot.x].items)}

\* the value a slot denotes
RECURSIVE Content(_, _)
Content(h, slot) ==
  IF ~slot.isRef
  THEN Primitive(slot.x)
  ELSE LET node == h[slot.x]
       IN Val(node.kind, node.v, node.names,
              [i \in 1..Len(node.items) |-> Content(h, node.items[i])])

\* the caller has made { due: new Date(5), tags: [2] }
ClInit ==
  /\ heap = <<Node("date", 5, <<>>, <<>>),
              Node("array", 0, <<>>, <<PrimSlot(2)>>),
              Node("object", 0, <<"due", "tags">>, <<RefTo(1), RefTo(2)>>)>>
  /\ held = {3}
  /\ stored = PrimSlot(0)

\* set(key, value) with an object the caller holds: value: this.deepClone(value)
ClSet(r) ==
  /\ r \in held
  /\ LET c == CloneSlot(heap, RefTo(r))
     IN /\ Len(c.heap) <= MaxHeap
        /\ heap' = c.heap
        /\ stored' = c.slot
  /\ UNCHANGED <<held, notCl>>

\* get(key): return this.deepClone(item.value)
ClGet ==
  /\ stored.isRef
  /\ LET c == CloneSlot(heap, stored)
     IN /\ Len(c.heap) <= MaxHeap
        /\ heap' = c.heap
        /\ held' = held \cup {c.slot.x}
  /\ UNCHANGED <<stored, notCl>>

\* the objects the caller can reach
ClReachable == UNION {Reach(heap, RefTo(r)) : r \in held}

\* the caller mutates an object it can reach: date.setTime(9), or obj[i] = 9
ClMutate(r) ==
  /\ r \in ClReachable
  /\ \/ /\ heap[r].kind = "date" /\ heap[r].v # 9
        /\ heap' = [heap EXCEPT ![r].v = 9]
     \/ \E i \in 1..Len(heap[r].items) :
          /\ heap[r].items[i] # PrimSlot(9)
          /\ heap' = [heap EXCEPT ![r].items[i] = PrimSlot(9)]
  /\ UNCHANGED <<held, stored, notCl>>

ClNext ==
  \/ \E r \in 1..MaxHeap : ClSet(r) \/ ClMutate(r)
  \/ ClGet

InitCL == BpQuiet /\ CbQuiet /\ RlQuiet /\ RtQuiet /\ CaQuiet /\ ClInit /\ EeQuiet /\ ToQuiet /\ GbQuiet /\ RgQuiet

SpecCL == InitCL /\ [][ClNext]_vars

\* the objects behind two slots are disjoint
Independent(h, s1, s2) == Reach(h, s1) \cap Reach(h, s2) = {}

\* a step in which the caller mutates an object
ClMutates == heap' # heap /\ Len(heap') = Len(heap)

\* a step of get: the caller holds one more object
ClGets == held' # held

C29_Step ==
  /\ ClMutates => Content(heap', stored') = Content(heap, stored)
  /\ ClGets =>
       /\ Content(heap', stored') = Content(heap, stored)
       /\ \A r \in held' \ held :
            /\ Content(heap', RefTo(r)) = Content(heap, stored)
            /\ \A q \in held : Content(heap', RefTo(q)) = Content(heap, RefTo(q))

C29_NoSharing ==
  /\ \A r \in held : Independent(heap, stored, RefTo(r))
  /\ \A r, q \in held : r # q => Independent(heap, RefTo(r), RefTo(q))

\* C29: the cache stores and returns deep copies: mutating the object passed
\* to set, or an object returned by get, never changes what a later get
\* returns, and the objects of two gets share nothing with each other, with
\* the stored value or with the object passed to set.
C29_DeepCopies == [][C29_Step]_vars /\ []C29_NoSharing

\* the object passed to set and the result of a first get have both been
\* mutated, and a second get has still returned the value that was set
C29_Witness ==
  /\ \E r, q \in held \ {3} :
       /\ r < q
       /\ Content(heap, RefTo(r)) # Content(heap, stored)
       /\ Content(heap, RefTo(q)) = Content(heap, stored)
  /\ heap[1].v = 9
  /\ Content(heap, stored).items[1] = DateOf(5)

(***************************************************************************)
(* Circuit breaker: the transition events it logs (part_004 lines 122,     *)
(* 178, 192), as the sequence of states named by the 'moved to' messages.  *)
(***************************************************************************)
\* line 122: logged when an OPEN breaker past its cooldown is entered
withCircuitBreakerLogs(circuit, options, t) ==
  IF circuit.state = "OPEN" /\ ~InCooldown(circuit, options, t)
  THEN <<"HALF_OPEN">> ELSE <<>>

\* line 178: logged inside if (circuit.state === CircuitState.HALF_OPEN)
onCircuitSuccessLogs(circuit) ==
  IF circuit.state = "HALF_OPEN" THEN <<"CLOSED">> ELSE <<>>

\* line 192: logged inside if (circuit.failureCount >= options.failureThreshold),
\* the count being the one just incremented
onCircuitFailureLogs(circuit, options) ==
  IF circuit.failureCount + 1 >= options.failureThreshold
  THEN <<"OPEN">> ELSE <<>>

\* the transition events logged in this step
CbLogged ==
  IF \E c \in CbCalls : CbSucceeds(c)
  THEN onCircuitSuccessLogs(Circ)
  ELSE IF \E c \in CbCalls : CbFails(c)
       THEN onCircuitFailureLogs(Circ, cbPolicy)
       ELSE IF \E c \in CbCalls : CbStarts(c)
            THEN withCircuitBreakerLogs(Circ, cbPolicy, now)
            ELSE <<>>

\* the change of state of the breaker in this step
CbChanged ==
  IF Circ'.state # Circ.state /\ Circ.state # "ABSENT"
  THEN <<Circ'.state>> ELSE <<>>

C30_Step == CbLogged = CbChanged

\* C30: every change of state of the breaker logs exactly one transition
\* event naming the new state, and every transition event logged is a change
\* of state, whatever the interleaving of concurrent calls.
C30_OneEventPerChange == [][C30_Step]_vars

(***************************************************************************)
(* Backpressure: the queue is non-empty only while every slot is taken.    *)
(***************************************************************************)
C35_QueueImpliesFull == Len(queue) > 0 => active = maxConcurrency

\* call c arrives in this step and fn is invoked for it at once
BpAdmitted(c) == callSt[c] = "new" /\ callSt'[c] \in {"running", "threw"}

C35_Step == \A c \in BpCalls : BpAdmitted(c) => queue = <<>>

\* C35: with maxConcurrency >= 1, whenever the wait queue is non-empty
\* activeCount equals maxConcurrency, so a call that arrives is never started
\* ahead of the calls already waiting.
C35_NoOvertaking == []C35_QueueImpliesFull /\ [][C35_Step]_vars

\* a call has finished and handed its slot to the head of the queue while two
\* later calls wait
C35_Witness ==
  /\ Len(queue) = 2
  /\ \E c \in BpCalls : callSt[c] = "done"
  /\ active = maxConcurrency

(***************************************************************************)
(* Rate limiter: no token is left while a caller waits.                    *)
(***************************************************************************)
\* C36: between the calls of the rate-limited function and the firings of
\* its timer, a non-empty wait queue implies tokens = 0.
C36_NoIdleToken == Len(rlQueue) > 0 => tokens = 0

\* a refill has started the first of two waiting calls and the second still
\* waits
C36_Witness ==
  /\ rate = 1
  /\ Len(rlQueue) = 1
  /\ Len(rlStartSeq) = 2
  /\ rlEnqSeq = <<rlStartSeq[2], rlQueue[1].k>>

(***************************************************************************)
(* Circuit breaker: invariants of the record under concurrent calls.       *)
(***************************************************************************)
\* C37: for a breaker always called with the same failureThreshold >= 1,
\* under any interleaving of concurrent calls, state = CLOSED implies
\* failureCount < failureThreshold.
C37_ClosedBelowThreshold ==
  Circ.state = "CLOSED" => Circ.failureCount < cbPolicy.failureThreshold

\* a CLOSED breaker that has seen a success counts a failure below the
\* threshold while another call is in flight
C37_Witness ==
  /\ Circ.state = "CLOSED"
  /\ Circ.failureCount = 1 /\ cbPolicy.failureThreshold = 2
  /\ Circ.successCount >= 1
  /\ \E c \in CbCalls : cbCall[c].pc = "op"

\* the changes of state the code performs
CbTransitions ==
  {<<"CLOSED", "OPEN">>, <<"OPEN", "HALF_OPEN">>,
   <<"HALF_OPEN", "CLOSED">>, <<"HALF_OPEN", "OPEN">>}

C38_Step ==
  /\ Circ'.state # Circ.state /\ Circ.state # "ABSENT" =>
       <<Circ.state, Circ'.state>> \in CbTransitions
  /\ Circ.state = "OPEN" /\ Circ'.state = "HALF_OPEN" =>
       /\ ~CbCooling
       /\ now' = now
       /\ \E c \in CbCalls : CbStarts(c)

\* C38: the only changes of state of a breaker, under any interleaving, are
\* CLOSED->OPEN, OPEN->HALF_OPEN, HALF_OPEN->CLOSED and HALF_OPEN->OPEN; and
\* OPEN->HALF_OPEN happens only inside a call made when
\* now - lastFailureTime >= resetTimeoutMs, never by the passage of time alone.
C38_OnlyLegalTransitions == [][C38_Step]_vars

\* the breaker has been through OPEN and HALF_OPEN: a call that moved it to
\* HALF_OPEN has ended in failure and the breaker is OPEN
C38_Witness ==
  /\ Circ.state = "OPEN"
  /\ cbLast.trial /\ cbLast.result = "opError"
  /\ Circ.successCount >= 1

(***************************************************************************)
(* Circuit breaker: calls on two breaker names.                            *)
(***************************************************************************)
\* a call of withCircuitBreaker on either name, one call at a time
CbCallNamed(c) ==
  \E name \in CircuitNames, fallback \in BOOLEAN :
    /\ CbNoneInFlight
    /\ CbBegin(c, name, cbPolicy, fallback)

CbNextNamed == (\E c \in CbCalls : CbCallNamed(c) \/ CbSettle(c)) \/ CbTick

SpecCBNamed == InitCB /\ [][CbNextNamed]_vars

\* the operation of a call on breaker n settles in this step
CbSettlesOn(n) ==
  \E c \in CbCalls :
    cbCall[c].pc = "op" /\ cbCall[c].name = n /\ cbCall'[c].pc # "op"

\* a call on breaker n gets through to its operation in this step
CbPassesOn(n) ==
  \E c \in CbCalls : CbInvokes(c) /\ cbCall'[c].name = n

\* breaker n rejects the calls made now
CbRejecting(n) ==
  /\ circuitBreakers[n].state = "OPEN"
  /\ InCooldown(circuitBreakers[n], cbPolicy, now)

C39_Step ==
  \A n \in CircuitNames :
    circuitBreakers'[n] # circuitBreakers[n] =>
      \/ CbSettlesOn(n)
      \/ CbPassesOn(n) /\ ~CbRejecting(n)

\* C39: a call that fails fast because the breaker is OPEN in cooldown, with
\* or without fallback, leaves the breaker's state, failureCount, successCount
\* and lastFailureTime unchanged, and a call on one breaker name never changes
\* the record of a breaker with another name.
C39_FrameOfCalls == [][C39_Step]_vars

\* breaker "a" has rejected a call in cooldown while breaker "b" has its own
\* record with a success counted
C39_Witness ==
  /\ Circ.state = "OPEN" /\ CbCooling
  /\ cbLast.name = "a" /\ cbLast.via = "open"
  /\ circuitBreakers["b"].state = "CLOSED"
  /\ circuitBreakers["b"].successCount >= 1

(***************************************************************************)
(* withRetry: where its outcome comes from.                                *)
(***************************************************************************)
\* C40: for every integer maxAttempts, 0 and negative values included, a
\* finished withRetry has invoked the operation at least once and either
\* returns the value of one of its attempts or raises the error of one of
\* its attempts.
C40_OutcomeFromOperation ==
  rtPc \in {"returned", "threw"} =>
    /\ rtInvoked >= 1
    /\ rtOutcome.of \in 1..Len(rtOps)
    /\ rtOutcome.kind = "value" => rtOps[rtOutcome.of] = "ok"
    /\ rtOutcome.kind = "error" => rtOps[rtOutcome.of] \in {"err", "fatal"}

\* the same, for maxAttempts >= 1
C40_OutcomeFromOperationPositive ==
  rtOptions.maxAttempts >= 1 => C40_OutcomeFromOperation

(***************************************************************************)
(* End to end: withCircuitBreaker(() => guarded(), "a", options) where     *)
(* guarded = withBackpressure(op, 1, 1) and op increments a counter when   *)
(* it succeeds.  The calls are issued one at a time: a call is made once   *)
(* the one before it has delivered its result.                             *)
(***************************************************************************)
EeInit ==
  /\ maxConcurrency = 1 /\ maxQueue = 1
  /\ active = 0 /\ queue = <<>>
  /\ callSt = [c \in BpCalls |-> "new"]
  /\ ranWith = [c \in BpCalls |-> 0]
  /\ outcome = [c \in BpCalls |-> "pending"]
  /\ startSeq = <<>> /\ enqSeq = <<>>
  /\ circuitBreakers = [n \in CircuitNames |-> NoCircuit]
  /\ now = 0
  /\ cbCall = [c \in CbCalls |-> IdleCall]
  /\ cbLast = IdleCall
  /\ cbPolicy \in {o \in CbOptions : o.failureThreshold = 1}
  /\ counter = 0
  /\ e2eResults = <<>>

\* the call of the backpressure wrapper made last
EeCurrent == CHOOSE c \in BpCalls :
               callSt[c] # "new" /\ \A d \in BpCalls : d > c => callSt[d] = "new"

\* withCircuitBreaker up to its first await: fail fast, or operation() is
\* called, which is the call of the backpressure wrapper
EeCall ==
  /\ cbCall[1].pc = "idle"
  /\ Len(e2eResults) < MaxE2eCalls
  /\ LET r == CbEnter(circuitBreakers, "a", cbPolicy, FALSE, now)
     IN /\ circuitBreakers' = r.cbs
        /\ IF r.call.pc = "done"
           THEN /\ cbLast' = r.call
                /\ e2eResults' = Append(e2eResults, r.call.result)
                /\ UNCHANGED <<cbCall, active, queue, callSt, ranWith, outcome,
                               startSeq, enqSeq>>
           ELSE /\ cbCall' = [cbCall EXCEPT ![1] = r.call]
                /\ \E c \in BpCalls :
                     /\ callSt[c] = "new"
                     /\ \A d \in BpCalls : d < c => callSt[d] # "new"
                     /\ BpAssign(wrapped(BpState, c, FALSE))
                /\ UNCHANGED <<cbLast, e2eResults>>
  /\ UNCHANGED <<counter, now, cbPolicy, maxConcurrency, maxQueue, notE2e>>

\* op settles: it has incremented the counter, or it has failed
EeFnSettle(c) ==
  /\ callSt[c] = "running"
  /\ \E res \in {"ok", "err"} :
       /\ BpAssign(settle(BpState, c, res))
       /\ counter' = IF res = "ok" THEN counter + 1 ELSE counter
  /\ UNCHANGED <<e2eResults, cbVars, maxConcurrency, maxQueue, notE2e>>

\* the await of withCircuitBreaker resumes with the settlement of the wrapper's
\* promise: onCircuitSuccess and return, or onCircuitFailure and throw
EeBreakerAfter ==
  /\ cbCall[1].pc = "op"
  /\ outcome[EeCurrent] # "pending"
  /\ LET r == IF outcome[EeCurrent] = "ok"
              THEN CbAfterSuccess(circuitBreakers, cbCall[1])
              ELSE CbAfterFailure(circuitBreakers, cbCall[1], now)
     IN /\ circuitBreakers' = r.cbs
        /\ cbCall' = [cbCall EXCEPT ![1] = IdleCall]
        /\ cbLast' = r.call
        /\ e2eResults' = Append(e2eResults, r.call.result)
  /\ UNCHANGED <<counter, now, cbPolicy, bpVars, notE2e>>

\* the .finally of the wrapper: the slot is released, a queued call starts
EeFinally(c) ==
  /\ callSt[c] = "settled"
  /\ BpAssign(release(BpState, c, FALSE))
  /\ UNCHANGED <<counter, e2eResults, cbVars, maxConcurrency, maxQueue, notE2e>>

EeTick ==
  /\ CbTick
  /\ \A c \in BpCalls : callSt[c] # "settled"

EeNext ==
  \/ EeCall
  \/ \E c \in BpCalls : EeFnSettle(c) \/ EeFinally(c)
  \/ EeBreakerAfter
  \/ EeTick

InitE2E == EeInit /\ RlQuiet /\ RtQuiet /\ CaQuiet /\ ClQuiet /\ ToQuiet /\ GbQuiet /\ RgQuiet

SpecE2E == InitE2E /\ [][EeNext]_vars

\* how many of the results delivered so far satisfy a test
RECURSIVE EeCount(_, _)
EeCount(rs, kinds) ==
  IF rs = <<>> THEN 0
  ELSE (IF Head(rs) \in kinds THEN 1 ELSE 0) + EeCount(Tail(rs), kinds)

\* no call of the composition is in flight
EeAtRest == cbCall[1].pc = "idle"

\* a call of the composition is made in this step
EeCalls == EeAtRest /\ (~EeAtRest' \/ e2eResults' # e2eResults)

\* the call in flight delivers its result in this step
EeDelivers == ~EeAtRest /\ EeAtRest'

C31_AtRest ==
  EeAtRest =>
    \* the counter counts the successes, and op ran once per call let through
    /\ counter = EeCount(e2eResults, {"opValue"})
    /\ Len(startSeq) = EeCount(e2eResults, {"opValue", "opError"})
    /\ e2eResults = <<"opValue">> => counter = 1 /\ Circ.state = "CLOSED"
    /\ e2eResults = <<"opValue", "opError">> => counter = 1 /\ Circ.state = "OPEN"

C31_Step ==
  /\ EeCalls /\ Circ.state = "OPEN" /\ now - Circ.lastFailureTime < cbPolicy.resetTimeoutMs =>
       /\ e2eResults' = Append(e2eResults, "circuitOpen")
       /\ counter' = counter
       /\ ranWith' = ranWith /\ callSt' = callSt
       /\ Circ' = Circ
  /\ EeCalls /\ Circ.state = "OPEN" /\ now - Circ.lastFailureTime > cbPolicy.resetTimeoutMs =>
       /\ Circ'.state = "HALF_OPEN"
       /\ cbCall'[1].pc = "op" /\ cbCall'[1].trial
  /\ EeDelivers /\ cbCall[1].trial =>
       /\ ranWith[EeCurrent] = EeCurrent
       /\ cbLast'.result = "opValue" => Circ'.state = "CLOSED"
       /\ cbLast'.result = "opError" => Circ'.state = "OPEN"

\* C31: backpressure (1 slot, queue of 1) inside a breaker (threshold 1),
\* one call at a time: a first call that succeeds leaves counter = 1 and the
\* breaker CLOSED; a second call that fails leaves counter = 1 and the breaker
\* OPEN; a call within the cooldown is rejected without running the operation
\* or touching the counter; a call after the cooldown runs the operation once
\* in HALF_OPEN and, if it succeeds, the breaker is CLOSED again.
C31_EndToEnd == []C31_AtRest /\ [][C31_Step]_vars

\* the scenario played through: success, failure, rejection, successful trial
C31_Witness ==
  /\ e2eResults = <<"opValue", "opError", "circuitOpen", "opValue">>
  /\ counter = 2
  /\ Circ.state = "CLOSED"

(***************************************************************************)
(* PredictablePerformanceService.withTimeout (cache.service.ts 277-284):   *)
(* Promise.race of fn(...args) and a promise a timer rejects.              *)
(***************************************************************************)
ToState ==
  [fn |-> toFn, timer |-> toTimer, elapsed |-> toElapsed, outcome |-> toOutcome,
   fnAt |-> toFnAt]

ToAssign(s) ==
  /\ toFn' = s.fn
  /\ toTimer' = s.timer
  /\ toElapsed' = s.elapsed
  /\ toOutcome' = s.outcome
  /\ toFnAt' = s.fnAt

\* mutant: the promise follows the last settlement
race_LastWins(s, c, res) == [s EXCEPT !.outcome[c] = res]

\* Promise.race: the returned promise takes the first settlement among its
\* members and ignores the later ones
race(s, c, res) ==
  IF s.outcome[c] = "pending" THEN [s EXCEPT !.outcome[c] = res] ELSE s

\* the wrapper: fn(...args) is called and the timer is set
timed(s, c) ==
  [s EXCEPT !.fn[c] = "running", !.timer[c] = "armed", !.elapsed[c] = 0]

\* fn's promise settles
fnSettled(s, c, res) ==
  race([s EXCEPT !.fn[c] = res, !.fnAt[c] = s.elapsed[c]], c,
       IF res = "ok" THEN "value" ELSE "error")

\* () => reject(new Error('Operation timed out'))
timerFired(s, c) == race([s EXCEPT !.timer[c] = "fired"], c, "timeout")

ToInit ==
  /\ timeoutMs \in 0..MaxTimeoutMs
  /\ toFn = [c \in ToCalls |-> "none"]
  /\ toTimer = [c \in ToCalls |-> "none"]
  /\ toElapsed = [c \in ToCalls |-> 0]
  /\ toOutcome = [c \in ToCalls |-> "pending"]
  /\ toFnAt = [c \in ToCalls |-> -1]

\* callers are numbered in calling order
ToCall(c) ==
  /\ toFn[c] = "none"
  /\ \A d \in ToCalls : d < c => toFn[d] # "none"
  /\ ToAssign(timed(ToState, c))
  /\ UNCHANGED <<timeoutMs, notTo>>

\* fn is not cancelled: it settles whenever it settles
ToFnSettle(c) ==
  /\ toFn[c] = "running"
  /\ \E res \in {"ok", "err"} : ToAssign(fnSettled(ToState, c, res))
  /\ UNCHANGED <<timeoutMs, notTo>>

\* setTimeout(..., timeoutMs): the callback runs once, no earlier than
\* timeoutMs after the call
ToTimerFire(c) ==
  /\ toTimer[c] = "armed"
  /\ toElapsed[c] >= timeoutMs
  /\ ToAssign(timerFired(ToState, c))
  /\ UNCHANGED <<timeoutMs, notTo>>

\* one unit of time passes
ToTick ==
  /\ \E c \in ToCalls : toFn[c] # "none" /\ toElapsed[c] <= timeoutMs
  /\ toElapsed' = [c \in ToCalls |->
                     IF toFn[c] # "none" /\ toElapsed[c] <= timeoutMs
                     THEN toElapsed[c] + 1 ELSE toElapsed[c]]
  /\ UNCHANGED <<timeoutMs, toFn, toTimer, toOutcome, toFnAt, notTo>>

ToNext ==
  \/ \E c \in ToCalls : ToCall(c) \/ ToFnSettle(c) \/ ToTimerFire(c)
  \/ ToTick

InitTO == BpQuiet /\ CbQuiet /\ RlQuiet /\ RtQuiet /\ CaQuiet /\ ClQuiet /\ EeQuiet /\ ToInit /\ GbQuiet /\ RgQuiet

SpecTO == InitTO /\ [][ToNext]_vars

\* what the caller gets when fn's settlement is the one delivered
ToOwn(c) == IF toFn[c] = "ok" THEN "value" ELSE "error"

\* fn settled before timeoutMs had elapsed
ToInTime(c) == toFnAt[c] # -1 /\ toFnAt[c] < timeoutMs

C32_Once == \A c \in ToCalls : toOutcome[c] # "pending" => toOutcome'[c] = toOutcome[c]

\* C32 as stated: the call settles exactly once, with fn's own result or
\* failure if fn settles before timeoutMs has elapsed, otherwise with the
\* rejection 'Operation timed out'; later settlements change nothing.
C32_FnWinsOnlyBeforeTimeout ==
  /\ [][C32_Once]_vars
  /\ [](\A c \in ToCalls :
          toOutcome[c] # "pending" =>
            toOutcome[c] = (IF ToInTime(c) THEN ToOwn(c) ELSE "timeout"))

C32_Step ==
  /\ C32_Once
  /\ \A c \in ToCalls :
       toOutcome[c] = "pending" =>
         /\ toFn[c] = "running" /\ toFn'[c] # "running" =>
              toOutcome'[c] = (IF toFn'[c] = "ok" THEN "value" ELSE "error")
         /\ toTimer[c] = "armed" /\ toTimer'[c] = "fired" => toOutcome'[c] = "timeout"
         /\ toFn'[c] = toFn[c] /\ toTimer'[c] = toTimer[c] => toOutcome'[c] = "pending"

C32_Settled ==
  \A c \in ToCalls :
    /\ ToInTime(c) => toOutcome[c] = ToOwn(c)
    /\ toOutcome[c] = "timeout" => toTimer[c] = "fired" /\ toElapsed[c] >= timeoutMs
    /\ toOutcome[c] = "pending" <=> toFn[c] \in {"none", "running"} /\ toTimer[c] # "fired"

\* C32 amended: the call settles exactly once, with whichever happens first:
\* the settlement of fn or the firing of the timer, which fires no earlier
\* than timeoutMs after the call.  An fn that settles before timeoutMs has
\* elapsed always delivers its own result or failure; one that settles at or
\* after timeoutMs still does if the timer has not fired yet.  The timeout
\* does not cancel fn, and a later settlement of fn or firing of the timer
\* never changes the outcome delivered.
C32_FirstSettlementWins == [][C32_Step]_vars /\ []C32_Settled

\* one call timed out and its fn settled afterwards; another got fn's value
\* and its timer fired afterwards
C32_Witness ==
  /\ toOutcome[1] = "timeout" /\ toFn[1] = "ok"
  /\ toOutcome[2] = "value" /\ toTimer[2] = "fired"

(***************************************************************************)
(* CircuitBreakerService.getBreaker (part_003 23-46) and                   *)
(* SelfHealingService.registerSelfHealing (part_006 20-31).  A breaker is  *)
(* the object the breaker class constructs around an action; its fire()    *)
(* calls that action, as in the class the test of getBreaker injects.      *)
(***************************************************************************)
\* mutant: the breaker under a key is replaced by one around the new action
getBreaker_Replaces(bs, key, action) ==
  [map |-> [bs EXCEPT ![key] = [action |-> action, onOpen |-> 0]],
   breaker |-> [action |-> action, onOpen |-> 0]]

\* getBreaker(key, action, options): the map afterwards and the breaker returned
getBreaker(bs, key, action) ==
  IF bs[key] # NoBreaker
  THEN [map |-> bs, breaker |-> bs[key]]
  ELSE [map |-> [bs EXCEPT ![key] = [action |-> action, onOpen |-> 0]],
        breaker |-> [action |-> action, onOpen |-> 0]]

\* registerSelfHealing(breakerKey, onHeal): getBreaker with async () => {} as
\* the action, then breaker.on('open', ...) on the breaker of the map
registerSelfHealing(bs, key) ==
  LET g == getBreaker(bs, key, "noop")
  IN [g.map EXCEPT ![key].onOpen = @ + 1]

\* fire(): the settlement of the breaker's action; async () => {} fulfils
fire(breaker, fails) ==
  IF fails /\ breaker.action # "noop"
  THEN [kind |-> "error", of |-> breaker.action]
  ELSE [kind |-> "value", of |-> breaker.action]

GbGetBreaker(key, action) ==
  /\ LET g == getBreaker(breakers, key, action)
     IN /\ breakers' = g.map
        /\ gbRet' = GbReturned("getBreaker", key, action, g.breaker, "none")
  /\ UNCHANGED notGb

GbRegisterSelfHealing(key) ==
  /\ breakers[key].onOpen < MaxListeners
  /\ breakers' = registerSelfHealing(breakers, key)
  /\ gbRet' = GbReturned("registerSelfHealing", key, "none", NoBreaker, "none")
  /\ UNCHANGED notGb

\* the caller fires the breaker getBreaker has just returned
GbFire ==
  /\ gbRet.op = "getBreaker"
  /\ \E fails \in BOOLEAN :
       gbRet' = [gbRet EXCEPT !.op = "fire", !.result = fire(gbRet.breaker, fails)]
  /\ UNCHANGED <<breakers, notGb>>

GbNext ==
  \/ \E key \in BreakerKeys, action \in Actions : GbGetBreaker(key, action)
  \/ \E key \in BreakerKeys : GbRegisterSelfHealing(key)
  \/ GbFire

InitGB == BpQuiet /\ CbQuiet /\ RlQuiet /\ RtQuiet /\ CaQuiet /\ ClQuiet /\ EeQuiet /\ ToQuiet /\ GbQuiet /\ RgQuiet

SpecGB == InitGB /\ [][GbNext]_vars

\* C33: getBreaker(key, action, options) returns a breaker whose fire() runs
\* the given action: it rejects with the action's error when the action
\* fails and resolves with its value when it succeeds, whatever calls of
\* getBreaker and registerSelfHealing came before, the same key included.
C33_FireRunsGivenAction ==
  /\ gbRet.op = "getBreaker" => gbRet.breaker.action = gbRet.asked
  /\ gbRet.op = "fire" => gbRet.result.of = gbRet.asked

\* the same, for a key no earlier call has used
C33_FirstUseOfKey ==
  [][\A key \in BreakerKeys :
       breakers[key] = NoBreaker /\ gbRet'.op = "getBreaker" /\ gbRet'.key = key
         => gbRet'.breaker.action = gbRet'.asked]_vars

(***************************************************************************)
(* EnhancedRateLimitGuard.canActivate (enhanced-rate-limit.guard.ts        *)
(* 26-99) for the requests of one rate-limit key.  The cache entry of a    *)
(* window is the count stored under rate_limit:<key>:<window>; its ttl is  *)
(* one window long, so it outlives the window it counts.                   *)
(***************************************************************************)
\* lines 36-43: the key of the current window is computed and cacheService.get
\* is called; get runs to its end inside the call, then canActivate awaits
guardRead(req, window, cached) ==
  [req EXCEPT !.pc = "read", !.window = window, !.requestCount = cached]

\* mutant: the limit is tested with > in place of >=
LimitReached_OffByOne(req) == req.requestCount > maxRequests

\* if (requestCount >= rateLimitOptions.maxRequests)
LimitReached(req) == req.requestCount >= maxRequests

\* lines 45-89 after the await: throw HttpException 429, or set the count read
\* plus one and return true
guardDecide(req, c) ==
  IF LimitReached(req)
  THEN [req |-> [req EXCEPT !.pc = "rejected429"], cache |-> c]
  ELSE [req |-> [req EXCEPT !.pc = "admitted"],
        cache |-> [c EXCEPT ![req.window] = req.requestCount + 1]]

RgInit ==
  /\ maxRequests \in 1..MaxRequests
  /\ currentWindow = 0
  /\ rgCache = [w \in RgWindows |-> 0]
  /\ rgReq = [r \in RgRequests |-> RgIdle]
  /\ rgAdmitted = [w \in RgWindows |-> 0]

\* request r reaches canActivate (requests are numbered in arrival order)
RgArrive(r) ==
  /\ rgReq[r].pc = "idle"
  /\ \A q \in RgRequests : q < r => rgReq[q].pc # "idle"
  /\ rgReq' = [rgReq EXCEPT ![r] = guardRead(@, currentWindow, rgCache[currentWindow])]
  /\ UNCHANGED <<maxRequests, currentWindow, rgCache, rgAdmitted, notRg>>

\* canActivate of request r resumes after await this.cacheService.get(...)
RgResume(r) ==
  /\ rgReq[r].pc = "read"
  /\ LET d == guardDecide(rgReq[r], rgCache)
     IN /\ rgReq' = [rgReq EXCEPT ![r] = d.req]
        /\ rgCache' = d.cache
        /\ rgAdmitted' = IF d.req.pc = "admitted"
                         THEN [rgAdmitted EXCEPT ![rgReq[r].window] = @ + 1]
                         ELSE rgAdmitted
  /\ UNCHANGED <<maxRequests, currentWindow, notRg>>

\* time passes into the next window
RgNextWindow ==
  /\ currentWindow < MaxWindow
  /\ currentWindow' = currentWindow + 1
  /\ UNCHANGED <<maxRequests, rgCache, rgReq, rgAdmitted, notRg>>

RgNext ==
  \/ \E r \in RgRequests : RgArrive(r) \/ RgResume(r)
  \/ RgNextWindow

\* one request at a time
RgArriveSeq(r) == (\A q \in RgRequests : rgReq[q].pc # "read") /\ RgArrive(r)

RgNextSeq ==
  \/ \E r \in RgRequests : RgArriveSeq(r) \/ RgResume(r)
  \/ RgNextWindow

InitRG == BpQuiet /\ CbQuiet /\ RlQuiet /\ RtQuiet /\ CaQuiet /\ ClQuiet /\ EeQuiet /\ ToQuiet /\ GbQuiet /\ RgInit

SpecRG == InitRG /\ [][RgNext]_vars

SpecRGSeq == InitRG /\ [][RgNextSeq]_vars

\* C34: canActivate admits at most maxRequests requests of one rate-limit key
\* within one window, also when requests of the key are handled concurrently
\* and their cache get and set steps interleave; every further request of the
\* window is rejected with HTTP 429.
C34_AtMostMaxRequests ==
  \A w \in RgWindows :
    /\ rgAdmitted[w] <= maxRequests
    /\ \A r \in RgRequests :
         rgReq[r].pc = "rejected429" /\ rgReq[r].window = w => rgCache[w] >= maxRequests

====
